---------------------------- MODULE Spec2Model ----------------------------
(***************************************************************************)
(* A model of MensaBotVVS (PyVVS): the response parsers of src/parsers.py  *)
(* over the record types of src/models.py, the disruption check, duration  *)
(* formatter and template filler of src/utils.py, src/src/utils.py and     *)
(* src/api.py, the facade of src/tools.py with its default departure       *)
(* time, the statistics of src/statistic.py and the response parser of     *)
(* src/departure.py.                                                       *)
(*                                                                         *)
(* Python values are modelled as follows.                                  *)
(*   - Optional[T]: the empty sequence <<>> is None, <<v>> is the value v. *)
(*   - The result of Element.find: <<>> when no element matches, <<e>>     *)
(*     for the element found; an element is [text, kids], text being the   *)
(*     Optional element text (None for an element without text) and kids   *)
(*     the number of its child elements (which decides its truth value).   *)
(*   - Free text that the parser only tests for emptiness is a string.     *)
(*     A mode name, which is searched for substrings, is a sequence of     *)
(*     one-character strings.                                              *)
(*   - A wire timestamp is a record of its numeric fields, or a text that  *)
(*     strptime rejects.                                                   *)
(***************************************************************************)
EXTENDS Integers, Sequences, FiniteSets, TLC

VARIABLES
    modeText,      \* _parseTransportMode: the argument
    modeResult,    \* _parseTransportMode: <<>> before the call, <<mode>> after
    depXmlOk,      \* parseDepartures: the response body is well-formed XML
    depDoc,        \* parseDepartures: the StopEvent nodes of the response
    depIdx,        \* parseDepartures: StopEvent nodes consumed by the loop
    depPc,         \* parseDepartures: "parse", "loop", "returned" or "raised"
    departures,    \* parseDepartures: the local list `departures`
    depBuilt,      \* parseDepartures: the keyword arguments of every Departure(...) call made
    depExc,        \* parseDepartures: the exception that left the call ("" when none)
    depResult,     \* parseDepartures: the list handed to the caller
    conXmlOk,      \* parseConnections: the response body is well-formed XML
    conDoc,        \* parseConnections: the Trip nodes of the response
    conIdx,        \* parseConnections: Trip nodes consumed by the loop
    conPc,         \* parseConnections: "parse", "loop", "returned" or "raised"
    connections,   \* parseConnections: the local list `connections`
    conExc,        \* parseConnections: the exception that left the call ("" when none)
    conResult,     \* parseConnections: the list handed to the caller
    legElement,    \* _parseConnectionLeg: the argument
    legPc,         \* _parseConnectionLeg: "call" or "done"
    legResult,     \* _parseConnectionLeg: what it returned
    stopXmlOk,     \* parseStops: the response body is well-formed XML
    stopDoc,       \* parseStops: the Location nodes of the response
    stopIdx,       \* parseStops: Location nodes consumed by the loop
    stopPc,        \* parseStops: "parse", "loop", "returned" or "raised"
    stops,         \* parseStops: the local list `stops`
    stopExc,       \* parseStops: the exception that left the call ("" when none)
    stopResult,    \* parseStops: the list handed to the caller
    disVariant,    \* disruption check: "utils" (src/utils.py) or "src_utils" (src/src/utils.py)
    disStatus,     \* disruption check: response.status_code
    situations,    \* disruption check: the PtSituation nodes of the response
    disIdx,        \* disruption check: PtSituation nodes consumed by the loop
    disPc,         \* disruption check: "status", "loop", "returned" or "raised"
    disPrinted,    \* disruption check: the notices printed, each with its node's position
    disExc,        \* disruption check: the exception that left the call ("" when none)
    disResult,     \* disruption check: <<>> before the return, else <<value>>
    duration,      \* convert_iso_duration: the argument
    durResult,     \* convert_iso_duration: <<>> before the call, <<string>> after
    tplVariant,    \* template filler: "fill_template" or "_fillTemplate"
    template,      \* template filler: the template argument
    values,        \* template filler: the mapping, as the sequence of its items
    tplResult,     \* template filler: <<>> before the call, <<string>> after
    facCall,       \* facade: the function of src/tools.py that is called
    facTransport,  \* facade: what session.post does: [exc, status]
    facBody,       \* facade: what the parser does with the response body
    facPc,         \* facade: "enter", "request", "parse", "exit" or "done"
    facSession,    \* facade: "none", "open" or "closed"
    facRequests,   \* facade: the number of session.post calls made
    facParserRuns, \* facade: the number of VVSResponseParser calls made
    facExc,        \* facade: the exception in flight or raised ("" when none)
    facResult,     \* facade: <<>> before the return, else <<value>>
    clkApiLoaded,  \* default departure time: the clock when src/api.py was loaded
    clkToolsLoaded,\* default departure time: the clock when src/tools.py was loaded
    clkNow,        \* default departure time: the clock, in half seconds
    clkRequests,   \* default departure time: the requests made, each with its call
    statFiles,     \* statistics: the CSV file of each date (None when there is none)
    statDepartures,\* statistics: what listDepartures returned to the last poll
    statPolls,     \* statistics: the number of collectStatistics polls made
    dpEvent,       \* departure.py: the StopEvent node parsed
    dpResult       \* departure.py: <<>> before the call, <<departure dict>> after

modeVars == <<modeText, modeResult>>
depVars  == <<depXmlOk, depDoc, depIdx, depPc, departures, depBuilt, depExc, depResult>>
conVars  == <<conXmlOk, conDoc, conIdx, conPc, connections, conExc, conResult>>
legVars  == <<legElement, legPc, legResult>>
stopVars == <<stopXmlOk, stopDoc, stopIdx, stopPc, stops, stopExc, stopResult>>
disVars  == <<disVariant, disStatus, situations, disIdx, disPc, disPrinted, disExc, disResult>>
durVars  == <<duration, durResult>>
tplVars  == <<tplVariant, template, values, tplResult>>
facVars  == <<facCall, facTransport, facBody, facPc, facSession, facRequests,
              facParserRuns, facExc, facResult>>
clkVars  == <<clkApiLoaded, clkToolsLoaded, clkNow, clkRequests>>
statVars == <<statFiles, statDepartures, statPolls>>
dpVars   == <<dpEvent, dpResult>>
vars     == <<modeVars, depVars, conVars, legVars, stopVars, disVars, durVars,
              tplVars, facVars, clkVars, statVars, dpVars>>

\* What an operation leaves alone: the state of the other operations.
modeOthers == <<depVars, conVars, legVars, stopVars, disVars, durVars, tplVars, facVars,
               clkVars, statVars, dpVars>>
depOthers  == <<modeVars, conVars, legVars, stopVars, disVars, durVars, tplVars, facVars,
               clkVars, statVars, dpVars>>
conOthers  == <<modeVars, depVars, legVars, stopVars, disVars, durVars, tplVars, facVars,
               clkVars, statVars, dpVars>>
legOthers  == <<modeVars, depVars, conVars, stopVars, disVars, durVars, tplVars, facVars,
               clkVars, statVars, dpVars>>
stopOthers == <<modeVars, depVars, conVars, legVars, disVars, durVars, tplVars, facVars,
               clkVars, statVars, dpVars>>
disOthers  == <<modeVars, depVars, conVars, legVars, stopVars, durVars, tplVars, facVars,
               clkVars, statVars, dpVars>>
durOthers  == <<modeVars, depVars, conVars, legVars, stopVars, disVars, tplVars, facVars,
               clkVars, statVars, dpVars>>
tplOthers  == <<modeVars, depVars, conVars, legVars, stopVars, disVars, durVars, facVars,
               clkVars, statVars, dpVars>>
facOthers  == <<modeVars, depVars, conVars, legVars, stopVars, disVars, durVars, tplVars,
               clkVars, statVars, dpVars>>
clkOthers  == <<modeVars, depVars, conVars, legVars, stopVars, disVars, durVars, tplVars,
               facVars, statVars, dpVars>>
statOthers == <<modeVars, depVars, conVars, legVars, stopVars, disVars, durVars, tplVars,
               facVars, clkVars, dpVars>>
dpOthers   == <<modeVars, depVars, conVars, legVars, stopVars, disVars, durVars, tplVars,
               facVars, clkVars, statVars>>

(***************************************************************************)
(* Bounds of the model.                                                    *)
(***************************************************************************)
MaxFragments == 2      \* fragments concatenated into a mode name
MaxEvents == 2         \* StopEvent nodes in a departures response
MaxTrips == 2          \* Trip nodes in a connections response

(***************************************************************************)
(* Optional values and elements.                                           *)
(***************************************************************************)
None == <<>>
Some(v) == <<v>>
IsNone(o) == o = <<>>
Get(o) == o[1]

NoElem == <<>>
\* An element with the given Optional text and number of child elements.
Elem(text, kids) == <<[text |-> text, kids |-> kids]>>
\* A leaf element holding text s; ElementTree reports the text of an
\* element without content as None.
Leaf(s) == Elem(Some(s), 0)
EmptyLeaf == Elem(None, 0)

\* _getText(element, default=""): element.text, or the default when find
\* returned no element.
\* src/parsers.py:73-75
GetText(element, default) ==
    IF element = NoElem THEN Some(default) ELSE Get(element).text

\* Python truth of an Optional[str]: None and "" are false.
TruthyText(o) == o # None /\ Get(o) # ""

\* Truth value of an ElementTree Element: its number of children is not 0.
TruthyElem(e) == e # NoElem /\ Get(e).kids > 0

(***************************************************************************)
(* Strings as character sequences, for the substring tests.                *)
(***************************************************************************)
UpperCase == <<"A","B","C","D","E","F","G","H","I","J","K","L","M",
               "N","O","P","Q","R","S","T","U","V","W","X","Y","Z">>
LowerCase == <<"a","b","c","d","e","f","g","h","i","j","k","l","m",
               "n","o","p","q","r","s","t","u","v","w","x","y","z">>

LowerChar(c) ==
    IF \E k \in 1..26 : UpperCase[k] = c
    THEN LowerCase[CHOOSE k \in 1..26 : UpperCase[k] = c]
    ELSE c

\* str.lower()
Lower(s) == [k \in 1..Len(s) |-> LowerChar(s[k])]

\* sub in s
Contains(s, sub) ==
    \E k \in 0..(Len(s) - Len(sub)) : SubSeq(s, k + 1, k + Len(sub)) = sub

kwRail      == <<"r","a","i","l">>
kwSbahn     == <<"s","b","a","h","n">>
kwSuburban  == <<"s","u","b","u","r","b","a","n">>
kwBus       == <<"b","u","s">>
kwTram      == <<"t","r","a","m">>
kwStadtbahn == <<"s","t","a","d","t","b","a","h","n">>
kwSubway    == <<"s","u","b","w","a","y">>
kwUbahn     == <<"u","b","a","h","n">>

TransportModes == {"rail", "bus", "tram", "subway", "unknown"}

\* The mutant of _parseTransportMode that tests 'bus' before the rail names.
ParseTransportModeBusFirst(modeText_) ==
    LET modeLower == Lower(modeText_) IN
    IF Contains(modeLower, kwBus) THEN "bus"
    ELSE IF Contains(modeLower, kwRail) \/ Contains(modeLower, kwSbahn)
            \/ Contains(modeLower, kwSuburban) THEN "rail"
    ELSE IF Contains(modeLower, kwTram) \/ Contains(modeLower, kwStadtbahn) THEN "tram"
    ELSE IF Contains(modeLower, kwSubway) \/ Contains(modeLower, kwUbahn) THEN "subway"
    ELSE "unknown"

\* _parseTransportMode(modeText) for a str argument.
\* src/parsers.py:78-91
ParseTransportMode(modeText_) ==
    LET modeLower == Lower(modeText_) IN
    IF Contains(modeLower, kwRail) \/ Contains(modeLower, kwSbahn)
       \/ Contains(modeLower, kwSuburban) THEN "rail"
    ELSE IF Contains(modeLower, kwBus) THEN "bus"
    ELSE IF Contains(modeLower, kwTram) \/ Contains(modeLower, kwStadtbahn) THEN "tram"
    ELSE IF Contains(modeLower, kwSubway) \/ Contains(modeLower, kwUbahn) THEN "subway"
    ELSE "unknown"

\* _parseTransportMode applied to what _getText returned: of None,
\* modeText.lower() raises AttributeError.
ParseTransportModeOpt(modeName) ==
    IF modeName = None
    THEN [exc |-> "AttributeError", mode |-> "unknown"]
    ELSE [exc |-> "", mode |-> ParseTransportMode(Get(modeName))]

\* The pieces mode names are put together from: the keywords in several
\* spellings, the names the operator uses, and pieces of keywords.
Fragments ==
    { kwRail, <<"R","A","I","L">>, kwSbahn, <<"S","-","B","a","h","n">>,
      kwSuburban, kwBus, <<"B","u","s">>, kwTram, <<"T","r","a","m">>,
      <<"S","t","a","d","t","b","a","h","n">>, kwSubway, kwUbahn,
      <<"U","B","a","h","n">>, <<"r","a">>, <<"i","l">>, <<"s">>, <<"Z","u","g">>,
      <<" ">> }

RECURSIVE Concats(_)
Concats(n) ==
    IF n = 0 THEN { <<>> }
    ELSE LET shorter == Concats(n - 1) IN
         shorter \cup { s \o f : s \in shorter, f \in Fragments }

ModeNames == Concats(MaxFragments)


(***************************************************************************)
(* Wire timestamps and aware datetimes.                                    *)
(*                                                                         *)
(* A wire text is [kind, z, y, mo, d, h, mi, s]: kind "iso" is a text of   *)
(* the shape YYYY-MM-DDTHH:MM:SS with these field values, followed by Z    *)
(* when z; kind "garbage" is any other non-empty text.  An aware datetime  *)
(* is [utc, off]: seconds since 1970-01-01T00:00:00Z and the UTC offset,   *)
(* in seconds, of Europe/Berlin at that instant.                           *)
(***************************************************************************)
IsoText(y, mo, d, h, mi, s, z) ==
    [kind |-> "iso", z |-> z, y |-> y, mo |-> mo, d |-> d, h |-> h, mi |-> mi, s |-> s]
\* The empty text "", the default of _getText.
EmptyText ==
    [kind |-> "empty", z |-> FALSE, y |-> 0, mo |-> 0, d |-> 0, h |-> 0, mi |-> 0, s |-> 0]
GarbageText ==
    [kind |-> "garbage", z |-> FALSE, y |-> 0, mo |-> 0, d |-> 0, h |-> 0, mi |-> 0, s |-> 0]

IsLeap(y) == (y % 4 = 0 /\ y % 100 # 0) \/ y % 400 = 0

DaysInMonth(y, mo) ==
    IF mo = 2 THEN (IF IsLeap(y) THEN 29 ELSE 28)
    ELSE IF mo \in {4, 6, 9, 11} THEN 30 ELSE 31

\* Days from 1970-01-01 to the civil date y-mo-d (proleptic Gregorian).
DaysFromCivil(y, mo, d) ==
    LET yy  == IF mo <= 2 THEN y - 1 ELSE y
        era == yy \div 400
        yoe == yy - era * 400
        mp  == IF mo > 2 THEN mo - 3 ELSE mo + 9
        doy == (153 * mp + 2) \div 5 + d - 1
        doe == yoe * 365 + yoe \div 4 - yoe \div 100 + doy
    IN  era * 146097 + doe - 719468

\* The last Sunday of month mo (of 31 days) of year y, in days from 1970-01-01
\* (which was a Thursday).
LastSunday(y, mo) ==
    LET last == DaysFromCivil(y, mo, 31)
        weekday == (last + 4) % 7      \* 0 is Sunday
    IN  last - weekday

\* The UTC offset of Europe/Berlin at a UTC instant of year y: summer time
\* from 01:00 UTC of the last Sunday of March to 01:00 UTC of the last
\* Sunday of October.
\* src/parsers.py:22
BerlinOffset(utc, y) ==
    LET dstStart == LastSunday(y, 3) * 86400 + 3600
        dstEnd   == LastSunday(y, 10) * 86400 + 3600
    IN  IF dstStart <= utc /\ utc < dstEnd THEN 7200 ELSE 3600

\* datetime.strptime(text, "%Y-%m-%dT%H:%M:%S") succeeds.
StrptimeOk(t) ==
    /\ t.kind = "iso"
    /\ t.y \in 1..9999
    /\ t.mo \in 1..12
    /\ t.d \in 1..DaysInMonth(t.y, t.mo)
    /\ t.h \in 0..23
    /\ t.mi \in 0..59
    /\ t.s \in 0..59

\* pytz.UTC.localize(utc_dt).astimezone(STUTTGART_TZ)
ToStuttgart(t) ==
    LET utc == DaysFromCivil(t.y, t.mo, t.d) * 86400 + t.h * 3600 + t.mi * 60 + t.s
    IN  [utc |-> utc, off |-> BerlinOffset(utc, t.y)]

\* _parseDateTime(datetimeStr): None for None and "", None when strptime
\* raises ValueError, else the instant in Stuttgart time.  With or without
\* the trailing Z the text is read as UTC.
\* src/parsers.py:25-56
ParseDateTime(datetimeStr) ==
    IF datetimeStr = None \/ Get(datetimeStr).kind = "empty" THEN None
    ELSE IF StrptimeOk(Get(datetimeStr))
         THEN Some(ToStuttgart(Get(datetimeStr)))
         ELSE None

Digits == <<"0","1","2","3","4","5","6","7","8","9">>
TwoDigits(n) == Digits[(n \div 10) + 1] \o Digits[(n % 10) + 1]

\* dt.strftime("%H:%M"): the local wall clock of an aware datetime.
FormatHM(dt) ==
    LET secOfDay == (dt.utc + dt.off) % 86400
    IN  TwoDigits(secOfDay \div 3600) \o ":" \o TwoDigits((secOfDay % 3600) \div 60)

\* _parseTimeString(datetimeStr)
\* src/parsers.py:59-70
ParseTimeString(datetimeStr) ==
    LET dt == ParseDateTime(datetimeStr)
    IN  IF dt # None THEN Some(FormatHM(Get(dt))) ELSE None

\* Python's int(x / 60) for an integral number of seconds x: the quotient
\* truncated toward zero.
TruncDiv(x, n) == IF x >= 0 THEN x \div n ELSE -((-x) \div n)

\* Python's round(x / 60): to the nearest integer, a tie to the even one.
RoundDiv(x, n) ==
    LET q == x \div n
        r == x % n
    IN  IF 2 * r < n THEN q
        ELSE IF 2 * r > n THEN q + 1
        ELSE IF q % 2 = 0 THEN q ELSE q + 1

(***************************************************************************)
(* The Departure dataclass.                                                *)
(***************************************************************************)
\* The fields of Departure; the first four have no default.
\* src/models.py:54-63
DepartureFields ==
    {"journeyRef", "line", "destination", "scheduledTime", "scheduledDateTime",
     "estimatedTime", "delayMinutes", "platform", "transportMode", "realtime"}
DepartureRequired == {"journeyRef", "line", "destination", "scheduledTime"}

\* The default of a Departure field that has one.
\* src/models.py:58-63
DepartureDefault(f) ==
    IF f = "transportMode" THEN "unknown"
    ELSE IF f = "realtime" THEN FALSE
    ELSE None

\* Departure(**kwargs), the __init__ the dataclass decorator generates: a
\* keyword that names no field, or a missing required field, raises
\* TypeError.
\* src/models.py:50-63
NewDeparture(kwargs) ==
    IF DOMAIN kwargs \subseteq DepartureFields /\ DepartureRequired \subseteq DOMAIN kwargs
    THEN [exc |-> "",
          obj |-> Some([f \in DepartureFields |->
                          IF f \in DOMAIN kwargs THEN kwargs[f] ELSE DepartureDefault(f)])]
    ELSE [exc |-> "TypeError", obj |-> None]

(***************************************************************************)
(* parseDepartures.                                                        *)
(*                                                                         *)
(* A StopEvent node is what the parser's find calls see of it:             *)
(*   journeyRef  the first JourneyRef element below it                     *)
(*   service     NoElem or <<[line, dest, mode]>>, mode being NoElem or    *)
(*               <<[name]>>, name the element Name/Text of the Mode        *)
(*   thisCall    NoElem or <<[serviceDeparture, plannedBay]>>,             *)
(*               serviceDeparture being NoElem or                          *)
(*               <<[timetabled, estimated]>>                               *)
(***************************************************************************)

\* The mutant of the delay computation that floors the quotient (// 60).
DelayMinutesFloored(scheduledDateTime, estimatedTime) ==
    IF scheduledDateTime # None /\ estimatedTime # None
    THEN Some((Get(estimatedTime).utc - Get(scheduledDateTime).utc) \div 60)
    ELSE None

\* delayMinutes: None unless both instants are there, else
\* int((estimatedTime - scheduledDateTime).total_seconds() / 60).
\* src/parsers.py:212-218
DelayMinutes(scheduledDateTime, estimatedTime) ==
    IF scheduledDateTime # None /\ estimatedTime # None
    THEN Some(TruncDiv(Get(estimatedTime).utc - Get(scheduledDateTime).utc, 60))
    ELSE None

\* One iteration of the loop over the StopEvent nodes: the exception it
\* raises ("" when none), whether it called Departure(...), the keyword
\* arguments of that call and the object it appended.
\* src/parsers.py:169-233
StopEventStep(stopEvent) ==
    LET journeyRefElem == stopEvent.journeyRef
        journeyRef == IF journeyRefElem # NoElem THEN GetText(journeyRefElem, "") ELSE Some("")
        service == stopEvent.service
        line == IF service # NoElem THEN GetText(Get(service).line, "") ELSE Some("")
        destination == IF service # NoElem THEN GetText(Get(service).dest, "") ELSE Some("")
        modeElem == IF service # NoElem THEN Get(service).mode ELSE NoElem
        modeCall == IF modeElem # NoElem
                    THEN ParseTransportModeOpt(GetText(Get(modeElem).name, <<>>))
                    ELSE [exc |-> "", mode |-> "unknown"]
        thisCall == stopEvent.thisCall
        serviceDeparture == IF thisCall # NoElem THEN Get(thisCall).serviceDeparture ELSE NoElem
        timetabledTimeElem ==
            IF serviceDeparture # NoElem THEN Get(serviceDeparture).timetabled ELSE NoElem
        estimatedTimeElem ==
            IF serviceDeparture # NoElem THEN Get(serviceDeparture).estimated ELSE NoElem
        platformElem == IF thisCall # NoElem THEN Get(thisCall).plannedBay ELSE NoElem
        platform == IF platformElem # NoElem THEN GetText(platformElem, "") ELSE None
        scheduledDateTime ==
            IF timetabledTimeElem # NoElem
            THEN ParseDateTime(GetText(timetabledTimeElem, EmptyText)) ELSE None
        scheduledTime ==
            IF timetabledTimeElem # NoElem
            THEN ParseTimeString(GetText(timetabledTimeElem, EmptyText)) ELSE None
        estimatedTime ==
            IF estimatedTimeElem # NoElem
            THEN ParseDateTime(GetText(estimatedTimeElem, EmptyText)) ELSE None
        delayMinutes == DelayMinutes(scheduledDateTime, estimatedTime)
        realtime == estimatedTime # None
        kwargs == [journeyRef |-> Get(journeyRef), line |-> Get(line),
                   destination |-> Get(destination), scheduledTime |-> Get(scheduledTime),
                   estimatedTime |-> estimatedTime, delayMinutes |-> delayMinutes,
                   platform |-> platform, transportMode |-> modeCall.mode,
                   realtime |-> realtime]
                  @@ ("_scheduledDateTime" :> scheduledDateTime)
    IN  IF modeCall.exc # ""
        THEN [exc |-> modeCall.exc, called |-> FALSE, kwargs |-> <<>>, obj |-> None]
        ELSE IF TruthyText(journeyRef) /\ TruthyText(line) /\ TruthyText(destination)
                /\ TruthyText(scheduledTime)
        THEN LET made == NewDeparture(kwargs)
             IN  [exc |-> made.exc, called |-> TRUE, kwargs |-> kwargs, obj |-> made.obj]
        ELSE [exc |-> "", called |-> FALSE, kwargs |-> <<>>, obj |-> None]

(***************************************************************************)
(* The responses parseDepartures is run on.                                *)
(***************************************************************************)
Service(line, dest, mode) == <<[line |-> line, dest |-> dest, mode |-> mode]>>
Mode(name) == <<[name |-> name]>>
ServiceDeparture(timetabled, estimated) ==
    <<[timetabled |-> timetabled, estimated |-> estimated]>>
ThisCall(serviceDeparture, plannedBay) ==
    <<[serviceDeparture |-> serviceDeparture, plannedBay |-> plannedBay]>>
StopEvent(journeyRef, service, thisCall) ==
    [journeyRef |-> journeyRef, service |-> service, thisCall |-> thisCall]

\* Wire times of 2025-09-22 (summer time) and 2025-12-01 (winter time).
Sep22(h, mi, s) == IsoText(2025, 9, 22, h, mi, s, TRUE)
ScheduledTexts == { Sep22(16, 0, 0), Sep22(15, 59, 30) }
EstimatedTexts ==
    { Sep22(15, 58, 0), Sep22(15, 58, 30), Sep22(15, 59, 30), Sep22(16, 0, 0),
      Sep22(16, 0, 30), Sep22(16, 1, 30), Sep22(16, 5, 0) }
\* Texts that are odd: no Z, a winter evening, a 13th month, no timestamp.
OddTexts ==
    { IsoText(2025, 9, 22, 16, 0, 0, FALSE), IsoText(2025, 12, 1, 23, 30, 0, TRUE),
      IsoText(2025, 13, 1, 16, 0, 0, TRUE), GarbageText }

BaseScheduled == Leaf(Sep22(16, 0, 0))
BaseEstimated == Leaf(Sep22(16, 5, 0))
BaseService == Service(Leaf("U6"), Leaf("Gerlingen"), NoElem)
BaseCall == ThisCall(ServiceDeparture(BaseScheduled, BaseEstimated), NoElem)

JourneyRefElems == { NoElem, EmptyLeaf, Leaf("J1"), Leaf("J2") }
ModeElems ==
    { NoElem, Mode(NoElem), Mode(EmptyLeaf),
      Mode(Leaf(<<"S","t","a","d","t","b","a","h","n">>)), Mode(Leaf(<<"B","u","s">>)) }
Services ==
    { NoElem }
    \cup { Service(l, Leaf("Gerlingen"), NoElem) : l \in { NoElem, EmptyLeaf, Leaf("U6") } }
    \cup { Service(Leaf("U6"), d, NoElem) : d \in { NoElem, EmptyLeaf } }
    \cup { Service(Leaf("U6"), Leaf("Gerlingen"), m) : m \in ModeElems }
Calls ==
    { NoElem, ThisCall(NoElem, Leaf("2")) }
    \cup { ThisCall(ServiceDeparture(Leaf(sch), Leaf(est)), NoElem) :
             sch \in ScheduledTexts, est \in EstimatedTexts }
    \cup { ThisCall(ServiceDeparture(sch, BaseEstimated), NoElem) :
             sch \in { NoElem, EmptyLeaf } \cup { Leaf(t) : t \in OddTexts } }
    \cup { ThisCall(ServiceDeparture(BaseScheduled, est), NoElem) :
             est \in { NoElem, EmptyLeaf } \cup { Leaf(t) : t \in OddTexts } }
    \cup { ThisCall(ServiceDeparture(BaseScheduled, BaseEstimated), bay) :
             bay \in { EmptyLeaf, Leaf("2") } }

\* The StopEvent nodes: the complete one with one part varied at a time,
\* and the node with nothing below it.
StopEvents ==
    { StopEvent(j, BaseService, BaseCall) : j \in JourneyRefElems }
    \cup { StopEvent(Leaf("J1"), sv, BaseCall) : sv \in Services }
    \cup { StopEvent(Leaf("J1"), BaseService, c) : c \in Calls }
    \cup { StopEvent(NoElem, NoElem, NoElem) }

DepartureDocs == UNION { [1..n -> StopEvents] : n \in 0..MaxEvents }

(***************************************************************************)
(* Actions.                                                                *)
(***************************************************************************)
ModeIdle == modeText = <<>> /\ modeResult = None
DepIdle ==
    /\ depXmlOk = TRUE /\ depDoc = <<>> /\ depIdx = 0 /\ depPc = "idle"
    /\ departures = <<>> /\ depBuilt = <<>> /\ depExc = "" /\ depResult = None
ConIdle ==
    /\ conXmlOk = TRUE /\ conDoc = <<>> /\ conIdx = 0 /\ conPc = "idle"
    /\ connections = <<>> /\ conExc = "" /\ conResult = None
LegIdle == legElement = <<>> /\ legPc = "idle" /\ legResult = None
StopIdle ==
    /\ stopXmlOk = TRUE /\ stopDoc = <<>> /\ stopIdx = 0 /\ stopPc = "idle"
    /\ stops = <<>> /\ stopExc = "" /\ stopResult = None
DisIdle ==
    /\ disVariant = "" /\ disStatus = 0 /\ situations = <<>> /\ disIdx = 0
    /\ disPc = "idle" /\ disPrinted = <<>> /\ disExc = "" /\ disResult = None
DurIdle == duration = <<>> /\ durResult = None
TplIdle == tplVariant = "" /\ template = <<>> /\ values = <<>> /\ tplResult = None
FacIdle ==
    /\ facCall = "" /\ facTransport = [exc |-> "", status |-> 0] /\ facBody = ""
    /\ facPc = "idle"
    /\ facSession = "none" /\ facRequests = 0 /\ facParserRuns = 0
    /\ facExc = "" /\ facResult = None
ClkIdle ==
    clkApiLoaded = 0 /\ clkToolsLoaded = 0 /\ clkNow = 0 /\ clkRequests = <<>>
StatIdle == statFiles = <<>> /\ statDepartures = <<>> /\ statPolls = 0
DpIdle == dpEvent = <<>> /\ dpResult = None

\* No operation but the named one is under way.
IdleExcept(op) ==
    /\ IF op = "mode" THEN TRUE ELSE ModeIdle
    /\ IF op = "dep" THEN TRUE ELSE DepIdle
    /\ IF op = "con" THEN TRUE ELSE ConIdle
    /\ IF op = "leg" THEN TRUE ELSE LegIdle
    /\ IF op = "stop" THEN TRUE ELSE StopIdle
    /\ IF op = "dis" THEN TRUE ELSE DisIdle
    /\ IF op = "dur" THEN TRUE ELSE DurIdle
    /\ IF op = "tpl" THEN TRUE ELSE TplIdle
    /\ IF op = "fac" THEN TRUE ELSE FacIdle
    /\ IF op = "clk" THEN TRUE ELSE ClkIdle
    /\ IF op = "stat" THEN TRUE ELSE StatIdle
    /\ IF op = "dp" THEN TRUE ELSE DpIdle

\* A call of _parseTransportMode with a str.
\* src/parsers.py:78-91
Classify ==
    /\ modeResult = None
    /\ modeResult' = Some(ParseTransportMode(modeText))
    /\ UNCHANGED <<modeText, modeOthers>>

InitMode == modeText \in ModeNames /\ modeResult = None /\ IdleExcept("mode")
NextMode == Classify
SpecMode == InitMode /\ [][NextMode]_vars

\* root = ET.fromstring(xmlResponse): of a body that is not well-formed it
\* raises ParseError, which the except clause turns into ValueError.
\* src/parsers.py:165-166, 235-236
DepFromString ==
    /\ depPc = "parse"
    /\ depPc' = IF depXmlOk THEN "loop" ELSE "raised"
    /\ depExc' = IF depXmlOk THEN "" ELSE "ValueError"
    /\ UNCHANGED <<depXmlOk, depDoc, depIdx, departures, depBuilt, depResult, depOthers>>

\* One iteration of the for loop of parseDepartures; an exception leaves
\* the call, the local list is lost.
\* src/parsers.py:169-233
ParseStopEvent ==
    /\ depPc = "loop"
    /\ depIdx < Len(depDoc)
    /\ LET step == StopEventStep(depDoc[depIdx + 1]) IN
       /\ depIdx' = depIdx + 1
       /\ depBuilt' = IF step.called THEN Append(depBuilt, step.kwargs) ELSE depBuilt
       /\ depExc' = step.exc
       /\ depPc' = IF step.exc # "" THEN "raised" ELSE "loop"
       /\ departures' = IF step.exc = "" /\ step.called
                        THEN Append(departures, Get(step.obj)) ELSE departures
    /\ UNCHANGED <<depXmlOk, depDoc, depResult, depOthers>>

\* The loop is over: return departures.
\* src/parsers.py:238
ReturnDepartures ==
    /\ depPc = "loop"
    /\ depIdx = Len(depDoc)
    /\ depPc' = "returned"
    /\ depResult' = Some(departures)
    /\ UNCHANGED <<depXmlOk, depDoc, depIdx, departures, depBuilt, depExc, depOthers>>

\* parseDepartures is called on a response body: well-formed, or the
\* StopEvent nodes of depDoc followed by text that is not well-formed.
\* src/parsers.py:163
InitDepartures ==
    /\ depXmlOk \in BOOLEAN
    /\ depDoc \in DepartureDocs
    /\ depIdx = 0 /\ depPc = "parse" /\ departures = <<>>
    /\ depBuilt = <<>> /\ depExc = "" /\ depResult = None
    /\ IdleExcept("dep")
NextDepartures == DepFromString \/ ParseStopEvent \/ ReturnDepartures
SpecDepartures == InitDepartures /\ [][NextDepartures]_vars

(***************************************************************************)
(* Properties of parseDepartures.                                          *)
(*                                                                         *)
(* What a StopEvent node holds is read off the node, not off the parser.   *)
(***************************************************************************)
\* The text of an element when it is there and not empty.
HasText(e) == e # NoElem /\ Get(e).text # None /\ Get(e).text # Some("")
\* The element holds a timestamp of the wire format.
HasInstant(e) == e # NoElem /\ Get(e).text # None /\ StrptimeOk(Get(Get(e).text))
\* The instant of such an element, in seconds since 1970-01-01T00:00:00Z.
InstantOf(e) == ToStuttgart(Get(Get(e).text)).utc

TimetabledOf(ev) ==
    IF ev.thisCall # NoElem /\ Get(ev.thisCall).serviceDeparture # NoElem
    THEN Get(Get(ev.thisCall).serviceDeparture).timetabled ELSE NoElem
EstimatedOf(ev) ==
    IF ev.thisCall # NoElem /\ Get(ev.thisCall).serviceDeparture # NoElem
    THEN Get(Get(ev.thisCall).serviceDeparture).estimated ELSE NoElem

\* The node has its four required fields: journey reference, line,
\* destination and scheduled time.
HasRequired(ev) ==
    /\ HasText(ev.journeyRef)
    /\ ev.service # NoElem
    /\ HasText(Get(ev.service).line)
    /\ HasText(Get(ev.service).dest)
    /\ HasInstant(TimetabledOf(ev))

CompleteEvents == SelectSeq(depDoc, HasRequired)
\* The call on a well-formed response has ended.
DepDone == depXmlOk /\ depPc \in {"returned", "raised"}

\* C1 (as claimed): a call on a response of N StopEvent nodes, M of them
\* lacking a required field, ends without an exception and returns N-M
\* Departure records, those of the complete nodes in document order.
C1_Leniency ==
    DepDone =>
        /\ depPc = "returned"
        /\ depExc = ""
        /\ Len(Get(depResult)) = Len(CompleteEvents)
        /\ \A k \in 1..Len(CompleteEvents) :
              Get(depResult)[k].journeyRef = Get(Get(CompleteEvents[k].journeyRef).text)

\* The response of the end-to-end example: one stop event, J1, U6 to
\* Gerlingen, scheduled 2025-09-22T16:00:00Z, estimated 16:05:00Z.
ExampleDoc == << StopEvent(Leaf("J1"), BaseService, BaseCall) >>

\* C2 (as claimed): on the example response the call returns exactly one
\* Departure, with line "U6", delayMinutes 5, realtime true and scheduled
\* display time "18:00".
C2_EndToEndExample ==
    (depDoc = ExampleDoc /\ DepDone) =>
        /\ depPc = "returned"
        /\ Len(Get(depResult)) = 1
        /\ Get(depResult)[1].line = "U6"
        /\ Get(depResult)[1].delayMinutes = Some(5)
        /\ Get(depResult)[1].realtime = TRUE
        /\ Get(depResult)[1].scheduledTime = "18:00"

\* The claimed delay and realtime flag of the Departure of a complete node.
DelayAsClaimed(ev, d) ==
    LET sch == TimetabledOf(ev)
        est == EstimatedOf(ev)
    IN  /\ (HasInstant(est) /\ InstantOf(est) >= InstantOf(sch)) =>
              /\ d.delayMinutes = Some((InstantOf(est) - InstantOf(sch)) \div 60)
              /\ d.realtime = TRUE
        /\ est = NoElem => (d.delayMinutes = None /\ d.realtime = FALSE)

\* C3 (as claimed): when the call has ended, every complete node has its
\* Departure in the result, with delayMinutes = floor((E - S) / 60 s) and
\* realtime true when E >= S, and with no delay and realtime false when
\* the node has no estimated instant.
C3_DelayArithmetic ==
    (DepDone /\ Len(CompleteEvents) > 0) =>
        /\ depPc = "returned"
        /\ Len(Get(depResult)) = Len(CompleteEvents)
        /\ \A k \in 1..Len(CompleteEvents) :
              DelayAsClaimed(CompleteEvents[k], Get(depResult)[k])

\* The difference estimated - scheduled, in seconds, of the instants a
\* Departure(...) call is given.
BuiltDiff(kw) == Get(kw.estimatedTime).utc - Get(kw["_scheduledDateTime"]).utc

\* C4 (as claimed): whenever delayMinutes is present on a Departure that
\* parseDepartures builds, it is the difference of the record's estimated
\* and scheduled instants rounded to the nearest whole minute.
C4_DelayRounded ==
    \A k \in 1..Len(depBuilt) :
        depBuilt[k].delayMinutes # None =>
            Get(depBuilt[k].delayMinutes) = RoundDiv(BuiltDiff(depBuilt[k]), 60)

\* C4 (amended): whenever delayMinutes is present on a Departure that
\* parseDepartures builds, both instants are present and delayMinutes is
\* the difference in minutes truncated toward zero: the whole minutes of
\* the difference, the remainder of less than a minute dropped.
C4_DelayTruncated ==
    \A k \in 1..Len(depBuilt) :
        depBuilt[k].delayMinutes # None =>
            /\ depBuilt[k].estimatedTime # None
            /\ depBuilt[k]["_scheduledDateTime"] # None
            /\ LET diff == BuiltDiff(depBuilt[k])
                   d == Get(depBuilt[k].delayMinutes)
               IN  IF diff >= 0
                   THEN 60 * d <= diff /\ diff < 60 * d + 60
                   ELSE 60 * d - 60 < diff /\ diff <= 60 * d

\* C4 witness: a Departure was built whose instants are 90 seconds apart,
\* where truncation (1) and rounding (2) differ.
C4_Witness ==
    \E k \in 1..Len(depBuilt) :
        /\ depBuilt[k].delayMinutes = Some(1)
        /\ BuiltDiff(depBuilt[k]) = 90

\* C25: when the estimated instant of a Departure that parseDepartures
\* builds is earlier than its scheduled instant, delayMinutes is the
\* (negative) difference in minutes truncated toward zero, not floored: 0
\* when the departure is less than a minute early, -1 when it is 90
\* seconds early; and realtime is true.
C25_EarlyDeparture ==
    \A k \in 1..Len(depBuilt) :
        LET kw == depBuilt[k] IN
        (kw.estimatedTime # None /\ kw["_scheduledDateTime"] # None /\ BuiltDiff(kw) < 0) =>
            LET early == 0 - BuiltDiff(kw) IN
            /\ kw.delayMinutes = Some(0 - (early \div 60))
            /\ early < 60 => kw.delayMinutes = Some(0)
            /\ early = 90 => kw.delayMinutes = Some(0 - 1)
            /\ kw.realtime

\* C25 witness: a Departure was built whose estimated instant is 90
\* seconds before its scheduled instant, with delay -1 and realtime.
C25_Witness ==
    \E k \in 1..Len(depBuilt) :
        /\ depBuilt[k].estimatedTime # None
        /\ depBuilt[k]["_scheduledDateTime"] # None
        /\ BuiltDiff(depBuilt[k]) = 0 - 90
        /\ depBuilt[k].delayMinutes = Some(0 - 1)
        /\ depBuilt[k].realtime

(***************************************************************************)
(* Properties of _parseTransportMode.                                      *)
(***************************************************************************)
\* Characters equal up to the case of a letter.
SameLetter(c, lower) ==
    c = lower \/ \E k \in 1..26 : UpperCase[k] = c /\ LowerCase[k] = lower
\* The lower-case keyword kw occurs in s, whatever the case of s.
Mentions(s, kw) ==
    \E k \in 0..(Len(s) - Len(kw)) : \A j \in 1..Len(kw) : SameLetter(s[k + j], kw[j])

SaysRail(s) == Mentions(s, kwRail) \/ Mentions(s, kwSbahn) \/ Mentions(s, kwSuburban)
SaysBus(s) == Mentions(s, kwBus)
SaysTram(s) == Mentions(s, kwTram) \/ Mentions(s, kwStadtbahn)
SaysSubway(s) == Mentions(s, kwSubway) \/ Mentions(s, kwUbahn)

\* C5: the classification of a mode name is one of the five modes, by the
\* first rule that matches regardless of case: rail/sbahn/suburban give
\* rail, else bus gives bus, else tram/stadtbahn give tram, else
\* subway/ubahn give subway, else unknown.
C5_ModeClassification ==
    modeResult # None =>
        LET m == Get(modeResult) IN
        /\ m \in TransportModes
        /\ SaysRail(modeText) => m = "rail"
        /\ (~SaysRail(modeText) /\ SaysBus(modeText)) => m = "bus"
        /\ (~SaysRail(modeText) /\ ~SaysBus(modeText) /\ SaysTram(modeText)) => m = "tram"
        /\ (~SaysRail(modeText) /\ ~SaysBus(modeText) /\ ~SaysTram(modeText)
              /\ SaysSubway(modeText)) => m = "subway"
        /\ (~SaysRail(modeText) /\ ~SaysBus(modeText) /\ ~SaysTram(modeText)
              /\ ~SaysSubway(modeText)) => m = "unknown"

\* C5 witness: a name that mentions both a rail keyword and "bus", in
\* upper case, was classified as rail.
C5_Witness ==
    /\ modeResult = Some("rail")
    /\ SaysBus(modeText)
    /\ Mentions(modeText, kwRail)
    /\ ~Contains(modeText, kwRail)

(***************************************************************************)
(* parseConnections and _parseConnectionLeg.                               *)
(*                                                                         *)
(* A TripLeg node is [start, end, originRef, originName, destRef,          *)
(* destName, service]: its first StartTime and EndTime elements, the       *)
(* StopPointRef and StopPointName/Text of its LegStart and LegEnd, and its *)
(* Service (NoElem or <<[line, dest, mode]>>).  A Trip node is             *)
(* [start, end, legs]: the StartTime and EndTime elements that are its own *)
(* children (NoElem when it has none) and its TripLeg nodes; as in the     *)
(* TRIAS schema, a Trip's own StartTime and EndTime precede its legs.      *)
(***************************************************************************)
\* Stop(id=..., name=...)
\* src/models.py:34-43
NewStop(id, name) ==
    [id |-> id, name |-> name, latitude |-> None, longitude |-> None,
     locality |-> None, stopType |-> "unknown"]

\* ConnectionLeg(...), with the intermediateStops of __post_init__.
\* src/models.py:118-132
NewConnectionLeg(origin, destination, departureTime, arrivalTime, line, transportMode) ==
    [origin |-> origin, destination |-> destination, departureTime |-> departureTime,
     arrivalTime |-> arrivalTime, line |-> line, transportMode |-> transportMode,
     intermediateStops |-> <<>>]

\* _parseConnectionLeg(legElement): the ConnectionLeg, or None; any
\* exception of the body is caught and gives None.
\* src/parsers.py:303-360
ParseConnectionLeg(leg) ==
    LET startTimeElem == leg.start
        endTimeElem == leg.end
        departureTime == IF startTimeElem # NoElem
                         THEN ParseDateTime(GetText(startTimeElem, EmptyText)) ELSE None
        arrivalTime == IF endTimeElem # NoElem
                       THEN ParseDateTime(GetText(endTimeElem, EmptyText)) ELSE None
        originElem == leg.originRef
        destElem == leg.destRef
        origin == IF originElem # NoElem
                  THEN Some(NewStop(GetText(originElem, ""), GetText(leg.originName, "")))
                  ELSE None
        destination == IF destElem # NoElem
                       THEN Some(NewStop(GetText(destElem, ""), GetText(leg.destName, "")))
                       ELSE None
        serviceElem == leg.service
        lineElem == IF serviceElem # NoElem THEN Get(serviceElem).line ELSE NoElem
        line == IF lineElem # NoElem THEN GetText(lineElem, "") ELSE None
        modeElem == IF serviceElem # NoElem THEN Get(serviceElem).mode ELSE NoElem
        modeCall == IF modeElem # NoElem
                    THEN ParseTransportModeOpt(GetText(Get(modeElem).name, <<>>))
                    ELSE [exc |-> "", mode |-> "unknown"]
    IN  IF departureTime = None \/ arrivalTime = None THEN None
        ELSE IF origin = None \/ destination = None THEN None
        ELSE IF modeCall.exc # "" THEN None
        ELSE Some(NewConnectionLeg(Get(origin), Get(destination), departureTime,
                                   arrivalTime, line, modeCall.mode))

\* The first element of a kind below a Trip: its own, or else that of the
\* first TripLeg that has one.
FirstBelow(own, ofLegs) ==
    IF own # NoElem THEN own
    ELSE LET having == { k \in 1..Len(ofLegs) : ofLegs[k] # NoElem }
         IN  IF having = {} THEN NoElem
             ELSE ofLegs[CHOOSE k \in having : \A j \in having : k <= j]

\* trip.find('.//trias:StartTime', NAMESPACES)
\* src/parsers.py:259
FindStartTime(trip) == FirstBelow(trip.start, [k \in 1..Len(trip.legs) |-> trip.legs[k].start])
\* trip.find('.//trias:EndTime', NAMESPACES)
\* src/parsers.py:260
FindEndTime(trip) == FirstBelow(trip.end, [k \in 1..Len(trip.legs) |-> trip.legs[k].end])

\* The mutant of the duration that rounds to the nearest minute.
DurationMinutesRounded(departureTime, arrivalTime) ==
    RoundDiv(Get(arrivalTime).utc - Get(departureTime).utc, 60)

\* int((arrivalTime - departureTime).total_seconds() / 60)
\* src/parsers.py:273
DurationMinutes(departureTime, arrivalTime) ==
    TruncDiv(Get(arrivalTime).utc - Get(departureTime).utc, 60)

\* The legs of a trip that _parseConnectionLeg returned, in order.
\* src/parsers.py:276-280
RECURSIVE ParseLegs(_)
ParseLegs(legNodes) ==
    IF legNodes = <<>> THEN <<>>
    ELSE LET legObj == ParseConnectionLeg(Head(legNodes))
         IN  (IF legObj # None THEN <<Get(legObj)>> ELSE <<>>) \o ParseLegs(Tail(legNodes))

\* The mutant of the Connection that takes its destination from the first leg.
NewConnectionFirstLeg(legs, departureTime, arrivalTime, durationMinutes) ==
    [origin |-> legs[1].origin, destination |-> legs[1].destination,
     departureTime |-> departureTime, arrivalTime |-> arrivalTime,
     durationMinutes |-> durationMinutes, legs |-> legs]

\* Connection(origin=legs[0].origin, destination=legs[-1].destination, ...)
\* src/parsers.py:282-294
NewConnection(legs, departureTime, arrivalTime, durationMinutes) ==
    [origin |-> legs[1].origin, destination |-> legs[Len(legs)].destination,
     departureTime |-> departureTime, arrivalTime |-> arrivalTime,
     durationMinutes |-> durationMinutes, legs |-> legs]

\* One iteration of the loop over the Trip nodes: the Connection it
\* appends, or None when it skips the trip.  all([startTimeElem,
\* endTimeElem]) takes the truth value of the two elements.
\* src/parsers.py:257-295
TripStep(trip) ==
    LET startTimeElem == FindStartTime(trip)
        endTimeElem == FindEndTime(trip)
        departureTime == ParseDateTime(GetText(startTimeElem, EmptyText))
        arrivalTime == ParseDateTime(GetText(endTimeElem, EmptyText))
        legs == ParseLegs(trip.legs)
    IN  IF ~(TruthyElem(startTimeElem) /\ TruthyElem(endTimeElem)) THEN None
        ELSE IF departureTime = None \/ arrivalTime = None THEN None
        ELSE IF legs = <<>> THEN None
        ELSE Some(NewConnection(legs, departureTime, arrivalTime,
                                DurationMinutes(departureTime, arrivalTime)))

(***************************************************************************)
(* The responses parseConnections is run on, and the TripLeg nodes         *)
(* _parseConnectionLeg is run on.                                          *)
(***************************************************************************)
TripLeg(start, end, originRef, originName, destRef, destName, service) ==
    [start |-> start, end |-> end, originRef |-> originRef, originName |-> originName,
     destRef |-> destRef, destName |-> destName, service |-> service]
Trip(start, end, legs) == [start |-> start, end |-> end, legs |-> legs]

\* An element with text t and one child element.
WithChild(t) == Elem(Some(t), 1)

Stadtbahn == Mode(Leaf(<<"S","t","a","d","t","b","a","h","n">>))

\* A ride from de:1 to de:2, 16:00 to 16:10 UTC.
LegRide ==
    TripLeg(Leaf(Sep22(16, 0, 0)), Leaf(Sep22(16, 10, 0)), Leaf("de:1"), Leaf("Hbf"),
            Leaf("de:2"), Leaf("Uni"), Service(Leaf("U6"), NoElem, Stadtbahn))
\* A walk from de:3 to de:1, 15:50 to 15:58 UTC: no Service, no name of
\* the origin, and time elements that have a child element.
LegWalk ==
    TripLeg(WithChild(Sep22(15, 50, 0)), WithChild(Sep22(15, 58, 0)), Leaf("de:3"), NoElem,
            Leaf("de:1"), Leaf("Hbf"), NoElem)
\* A leg without EndTime.
LegNoEnd ==
    TripLeg(Leaf(Sep22(16, 0, 0)), NoElem, Leaf("de:1"), Leaf("Hbf"),
            Leaf("de:2"), Leaf("Uni"), NoElem)

\* The TripLeg nodes of a Trip: none, legs that parse and legs that are
\* dropped, in both orders.
LegSeqs ==
    { <<>>, <<LegRide>>, <<LegNoEnd>>, <<LegRide, LegWalk>>, <<LegWalk, LegRide>>,
      <<LegNoEnd, LegRide>>, <<LegRide, LegNoEnd>>, <<LegNoEnd, LegNoEnd>>,
      <<LegRide, LegNoEnd, LegWalk>> }

TripStart == WithChild(Sep22(16, 0, 0))
TripEnd == WithChild(Sep22(16, 20, 0))
TripStarts == { NoElem, Leaf(Sep22(16, 0, 0)), Elem(None, 1), WithChild(GarbageText) }
TripEnds ==
    { NoElem, Leaf(Sep22(16, 20, 0)), WithChild(Sep22(16, 21, 30)), WithChild(Sep22(16, 20, 45)),
      WithChild(Sep22(15, 59, 15)) }

\* The Trip nodes: the sequences of legs under good trip times, the trip
\* times varied one at a time, the trip as the service sends it (time
\* elements without children), and trips without times of their own.
Trips ==
    { Trip(TripStart, TripEnd, legs) : legs \in LegSeqs }
    \cup { Trip(st, TripEnd, <<LegRide, LegWalk>>) : st \in TripStarts }
    \cup { Trip(TripStart, en, <<LegNoEnd, LegRide>>) : en \in TripEnds }
    \cup { Trip(Leaf(Sep22(16, 0, 0)), Leaf(Sep22(16, 20, 0)), <<LegRide>>) }
    \cup { Trip(NoElem, NoElem, legs) : legs \in { <<LegWalk>>, <<LegWalk, LegRide>> } }

ConnectionDocs == UNION { [1..n -> Trips] : n \in 0..MaxTrips }

LegTimeElems == { NoElem, EmptyLeaf, Leaf(GarbageText), Leaf(Sep22(16, 0, 0)) }
LegRefElems == { NoElem, EmptyLeaf, Leaf("de:1") }
LegNameElems == { NoElem, Leaf("Hbf") }
LegServices ==
    { NoElem, Service(NoElem, NoElem, NoElem), Service(EmptyLeaf, NoElem, Mode(NoElem)),
      Service(Leaf("U6"), NoElem, Stadtbahn), Service(Leaf("U6"), NoElem, Mode(EmptyLeaf)) }
LegNodes ==
    { TripLeg(st, en, oref, oname, dref, dname, sv) :
        st \in LegTimeElems, en \in LegTimeElems, oref \in LegRefElems,
        oname \in LegNameElems, dref \in LegRefElems, dname \in LegNameElems,
        sv \in LegServices }

(***************************************************************************)
(* Actions of parseConnections and _parseConnectionLeg.                    *)
(***************************************************************************)
\* The mutant of the parse step that goes on with the nodes read so far.
ConFromStringLenient ==
    /\ conPc = "parse"
    /\ conPc' = "loop"
    /\ UNCHANGED <<conXmlOk, conDoc, conIdx, connections, conExc, conResult, conOthers>>

\* root = ET.fromstring(xmlResponse): of a body that is not well-formed it
\* raises ParseError, which the except clause turns into ValueError.
\* src/parsers.py:253-254, 297-298
ConFromString ==
    /\ conPc = "parse"
    /\ conPc' = IF conXmlOk THEN "loop" ELSE "raised"
    /\ conExc' = IF conXmlOk THEN "" ELSE "ValueError"
    /\ UNCHANGED <<conXmlOk, conDoc, conIdx, connections, conResult, conOthers>>

\* One iteration of the for loop of parseConnections.
\* src/parsers.py:257-295
ParseTrip ==
    /\ conPc = "loop"
    /\ conIdx < Len(conDoc)
    /\ LET made == TripStep(conDoc[conIdx + 1]) IN
       connections' = IF made # None THEN Append(connections, Get(made)) ELSE connections
    /\ conIdx' = conIdx + 1
    /\ UNCHANGED <<conXmlOk, conDoc, conPc, conExc, conResult, conOthers>>

\* The loop is over: return connections.
\* src/parsers.py:300
ReturnConnections ==
    /\ conPc = "loop"
    /\ conIdx = Len(conDoc)
    /\ conPc' = "returned"
    /\ conResult' = Some(connections)
    /\ UNCHANGED <<conXmlOk, conDoc, conIdx, connections, conExc, conOthers>>

\* parseConnections is called on a response body: well-formed, or the
\* Trip nodes of conDoc followed by text that is not well-formed.
\* src/parsers.py:251
InitConnections ==
    /\ conXmlOk \in BOOLEAN
    /\ conDoc \in ConnectionDocs
    /\ conIdx = 0 /\ conPc = "parse" /\ connections = <<>> /\ conExc = ""
    /\ conResult = None
    /\ IdleExcept("con")
NextConnections == ConFromString \/ ParseTrip \/ ReturnConnections
SpecConnections == InitConnections /\ [][NextConnections]_vars

\* A call of _parseConnectionLeg.
\* src/parsers.py:303-360
ParseLeg ==
    /\ legPc = "call"
    /\ legPc' = "done"
    /\ legResult' = ParseConnectionLeg(legElement)
    /\ UNCHANGED <<legElement, legOthers>>

InitLeg ==
    /\ legElement \in LegNodes
    /\ legPc = "call" /\ legResult = None
    /\ IdleExcept("leg")
NextLeg == ParseLeg
SpecLeg == InitLeg /\ [][NextLeg]_vars

(***************************************************************************)
(* Properties of parseConnections and _parseConnectionLeg.                 *)
(***************************************************************************)
LegParses(leg) == ParseConnectionLeg(leg) # None
\* The legs of a Trip node that parse, as ConnectionLegs, in document order.
KeptLegs(trip) ==
    LET kept == SelectSeq(trip.legs, LegParses)
    IN  [j \in 1..Len(kept) |-> Get(ParseConnectionLeg(kept[j]))]

\* The Trip node has a parseable start instant, a parseable end instant
\* (those of the first StartTime and EndTime elements below it) and a leg
\* that parses.
TripQualifies(trip) ==
    /\ HasInstant(FindStartTime(trip))
    /\ HasInstant(FindEndTime(trip))
    /\ \E j \in 1..Len(trip.legs) : LegParses(trip.legs[j])
QualifyingTrips == SelectSeq(conDoc, TripQualifies)

\* C6 (as claimed): the call returns one Connection for every Trip node
\* with parseable start and end instants and a leg that parses, none for
\* any other Trip node, in the document order of the Trip nodes.
C6_OneConnectionPerTrip ==
    conPc = "returned" =>
        /\ Len(Get(conResult)) = Len(QualifyingTrips)
        /\ \A k \in 1..Len(QualifyingTrips) :
              /\ Get(Get(conResult)[k].departureTime).utc =
                    InstantOf(FindStartTime(QualifyingTrips[k]))
              /\ Get(Get(conResult)[k].arrivalTime).utc =
                    InstantOf(FindEndTime(QualifyingTrips[k]))
              /\ Get(conResult)[k].legs = KeptLegs(QualifyingTrips[k])

\* The Trip nodes consumed so far for which the loop appended a Connection.
Emits(trip) == TripStep(trip) # None
EmittingTrips == SelectSeq(SubSeq(conDoc, 1, conIdx), Emits)

\* C7: every Connection of parseConnections has at least one leg, the
\* origin of its first leg and the destination of its last leg, legs that
\* all have a departure and an arrival instant, and as legs the legs of
\* its Trip node that parse, in document order; the list returned is the
\* list built.
C7_LegConsistency ==
    LET emitting == EmittingTrips IN
    /\ Len(connections) = Len(emitting)
    /\ conResult # None => Get(conResult) = connections
    /\ \A k \in 1..Len(connections) :
          LET c == connections[k] IN
          /\ Len(c.legs) >= 1
          /\ c.origin = c.legs[1].origin
          /\ c.destination = c.legs[Len(c.legs)].destination
          /\ \A j \in 1..Len(c.legs) :
                c.legs[j].departureTime # None /\ c.legs[j].arrivalTime # None
          /\ c.legs = KeptLegs(emitting[k])

\* C7 witness: a Connection was returned whose Trip node has a leg that
\* was dropped and two legs that end at different stops.
C7_Witness ==
    /\ conPc = "returned"
    /\ \E k \in 1..Len(connections) :
          /\ Len(connections[k].legs) >= 2
          /\ connections[k].legs[1].destination # connections[k].destination
    /\ \E k \in 1..Len(connections) :
          Len(connections[k].legs) < Len(EmittingTrips[k].legs)

\* The difference arrivalTime - departureTime of a Connection, in seconds.
ConnDiff(c) == Get(c.arrivalTime).utc - Get(c.departureTime).utc

StopOk(stop) == TruthyText(stop.id) /\ TruthyText(stop.name)

\* C9 (as claimed): the origin and destination of every Connection and of
\* every leg that parseConnections surfaces have a non-empty reference
\* and a non-empty name.
C9_StopsNamed ==
    \A k \in 1..Len(connections) :
        /\ StopOk(connections[k].origin)
        /\ StopOk(connections[k].destination)
        /\ \A j \in 1..Len(connections[k].legs) :
              StopOk(connections[k].legs[j].origin) /\ StopOk(connections[k].legs[j].destination)

\* The leg node has a parseable start instant, a parseable end instant, an
\* origin stop reference and a destination stop reference.
LegHasRequired(leg) ==
    /\ HasInstant(leg.start)
    /\ HasInstant(leg.end)
    /\ leg.originRef # NoElem
    /\ leg.destRef # NoElem

\* C10 (as claimed): _parseConnectionLeg returns a ConnectionLeg if and
\* only if the leg node has its two instants and its two stop references,
\* and None otherwise.
C10_LegIffRequired ==
    legPc = "done" => (legResult # None <=> LegHasRequired(legElement))

\* C24 (as claimed): in every Connection returned by parseConnections
\* the legs are in temporal order: no leg departs earlier than the leg
\* before it.
C24_LegsNonDecreasing ==
    conResult # None =>
        \A k \in 1..Len(Get(conResult)) :
            LET legs == Get(conResult)[k].legs IN
            \A j \in 1..(Len(legs) - 1) :
                Get(legs[j + 1].departureTime).utc >= Get(legs[j].departureTime).utc

(***************************************************************************)
(* Properties of the walking legs.                                         *)
(***************************************************************************)
\* The mode name of a Service: the text of Mode/Name/Text ("" when the
\* Service or its Mode has none).
ModeNameOf(service) ==
    IF service = NoElem \/ Get(service).mode = NoElem THEN <<>>
    ELSE LET name == GetText(Get(Get(service).mode).name, <<>>)
         IN  IF name = None THEN <<>> ELSE Get(name)

\* C23 (as claimed): a ConnectionLeg returned by _parseConnectionLeg has
\* no line (isWalking) if and only if the leg node has no Service; when it
\* has a Service, the leg has a line and the transport mode classified
\* from the mode name of the Service.
C23_WalkingIffNoService ==
    (legPc = "done" /\ legResult # None) =>
        /\ Get(legResult).line = None <=> legElement.service = NoElem
        /\ legElement.service # NoElem =>
               /\ Get(legResult).line # None
               /\ Get(legResult).transportMode =
                      ParseTransportMode(ModeNameOf(legElement.service))

\* What the code does: the leg has no line exactly when the node has no
\* PublishedLineName text, with or without a Service.
C23_WalkingIffNoLineName ==
    (legPc = "done" /\ legResult # None) =>
        /\ Get(legResult).line = None <=>
               \/ legElement.service = NoElem
               \/ Get(legElement.service).line \in {NoElem, EmptyLeaf}
        /\ Get(legResult).transportMode =
               ParseTransportMode(ModeNameOf(legElement.service))

(***************************************************************************)
(* parseStops.                                                             *)
(*                                                                         *)
(* A Location node is [stopPoint, geo, locality]: its first StopPoint      *)
(* (NoElem or <<[ref, name]>>, the StopPointRef and StopPointName/Text     *)
(* below it), its first GeoPosition (NoElem or <<[lat, lon]>>, the         *)
(* Latitude and Longitude children) and its LocationName/Text.  The text   *)
(* of a coordinate is [kind, micro]: kind "decimal" is a decimal numeral   *)
(* of micro millionths of a degree, kind "garbage" any other text.         *)
(***************************************************************************)
MaxLocations == 2      \* Location nodes in a stop search response

DecimalText(micro) == [kind |-> "decimal", micro |-> micro]
GarbageCoord == [kind |-> "garbage", micro |-> 0]

\* float(x) of what _getText returned: TypeError of None, ValueError of a
\* text that is no numeral, else the number (in millionths).
\* src/parsers.py:129-130
ParseFloat(x) ==
    IF x = None THEN [exc |-> "TypeError", value |-> 0]
    ELSE IF Get(x).kind = "decimal" THEN [exc |-> "", value |-> Get(x).micro]
    ELSE [exc |-> "ValueError", value |-> 0]

\* Stop(id=..., name=..., latitude=..., longitude=..., locality=...,
\* stopType=StopType.STOP)
\* src/parsers.py:137-144
NewSearchStop(id, name, latitude, longitude, locality) ==
    [id |-> id, name |-> name, latitude |-> latitude, longitude |-> longitude,
     locality |-> locality, stopType |-> "stop"]

\* One iteration of the loop over the Location nodes: the exception it
\* raises ("" when none) and the Stop it appends, or None.  The
\* coordinates are converted before the reference and the name are tested.
\* src/parsers.py:114-145
LocationStep(location) ==
    IF location.stopPoint = NoElem THEN [exc |-> "", stop |-> None]
    ELSE
    LET stopPoint == Get(location.stopPoint)
        stopPointRef == GetText(stopPoint.ref, "")
        stopPointName == GetText(stopPoint.name, "")
        pos == location.geo
        latElem == IF pos = NoElem THEN NoElem ELSE Get(pos).lat
        lonElem == IF pos = NoElem THEN NoElem ELSE Get(pos).lon
        lat == IF latElem = NoElem THEN [exc |-> "", value |-> 0]
               ELSE ParseFloat(GetText(latElem, ""))
        lon == IF lonElem = NoElem THEN [exc |-> "", value |-> 0]
               ELSE ParseFloat(GetText(lonElem, ""))
        latitude == IF latElem = NoElem THEN None ELSE Some(lat.value)
        longitude == IF lonElem = NoElem THEN None ELSE Some(lon.value)
        localityElem == location.locality
        locality == IF localityElem = NoElem THEN None ELSE GetText(localityElem, "")
    IN  IF lat.exc # "" THEN [exc |-> lat.exc, stop |-> None]
        ELSE IF lon.exc # "" THEN [exc |-> lon.exc, stop |-> None]
        ELSE IF TruthyText(stopPointRef) /\ TruthyText(stopPointName)
        THEN [exc |-> "",
              stop |-> Some(NewSearchStop(stopPointRef, stopPointName,
                                          latitude, longitude, locality))]
        ELSE [exc |-> "", stop |-> None]

StopPoint(ref, name) == <<[ref |-> ref, name |-> name]>>
GeoPosition(lat, lon) == <<[lat |-> lat, lon |-> lon]>>
Location(stopPoint, geo, locality) ==
    [stopPoint |-> stopPoint, geo |-> geo, locality |-> locality]

BaseStopPoint == StopPoint(Leaf("de:1"), Leaf("Hbf"))
BaseGeo == GeoPosition(Leaf(DecimalText(48783000)), Leaf(DecimalText(9181000)))
CoordElems == { NoElem, EmptyLeaf, Leaf(GarbageCoord), Leaf(DecimalText(48783000)) }
StopPoints ==
    { NoElem }
    \cup { StopPoint(r, Leaf("Hbf")) : r \in { NoElem, EmptyLeaf, Leaf("de:2") } }
    \cup { StopPoint(Leaf("de:3"), n) : n \in { NoElem, EmptyLeaf, Leaf("Uni") } }
GeoPositions ==
    { NoElem }
    \cup { GeoPosition(c, Leaf(DecimalText(9181000))) : c \in CoordElems }
    \cup { GeoPosition(Leaf(DecimalText(48783000)), c) : c \in CoordElems }

\* The Location nodes: the complete one with one part varied at a time,
\* and a node without StopPoint whose latitude is no numeral.
Locations ==
    { Location(sp, BaseGeo, Leaf("Stuttgart")) : sp \in StopPoints }
    \cup { Location(BaseStopPoint, g, Leaf("Stuttgart")) : g \in GeoPositions }
    \cup { Location(BaseStopPoint, BaseGeo, l) : l \in { NoElem, EmptyLeaf } }
    \cup { Location(NoElem, GeoPosition(Leaf(GarbageCoord), NoElem), NoElem),
           Location(StopPoint(EmptyLeaf, Leaf("Hbf")),
                    GeoPosition(Leaf(GarbageCoord), NoElem), NoElem) }

StopDocs == UNION { [1..n -> Locations] : n \in 0..MaxLocations }

\* root = ET.fromstring(xmlResponse): of a body that is not well-formed it
\* raises ParseError, which the except clause turns into ValueError.
\* src/parsers.py:110-111, 147-148
StopFromString ==
    /\ stopPc = "parse"
    /\ stopPc' = IF stopXmlOk THEN "loop" ELSE "raised"
    /\ stopExc' = IF stopXmlOk THEN "" ELSE "ValueError"
    /\ UNCHANGED <<stopXmlOk, stopDoc, stopIdx, stops, stopResult, stopOthers>>

\* One iteration of the for loop of parseStops; an exception that is not
\* ParseError leaves the call, the local list is lost.
\* src/parsers.py:114-145
ParseLocation ==
    /\ stopPc = "loop"
    /\ stopIdx < Len(stopDoc)
    /\ LET step == LocationStep(stopDoc[stopIdx + 1]) IN
       /\ stopIdx' = stopIdx + 1
       /\ stopExc' = step.exc
       /\ stopPc' = IF step.exc # "" THEN "raised" ELSE "loop"
       /\ stops' = IF step.stop # None THEN Append(stops, Get(step.stop)) ELSE stops
    /\ UNCHANGED <<stopXmlOk, stopDoc, stopResult, stopOthers>>

\* The loop is over: return stops.
\* src/parsers.py:150
ReturnStops ==
    /\ stopPc = "loop"
    /\ stopIdx = Len(stopDoc)
    /\ stopPc' = "returned"
    /\ stopResult' = Some(stops)
    /\ UNCHANGED <<stopXmlOk, stopDoc, stopIdx, stops, stopExc, stopOthers>>

\* parseStops is called on a response body: well-formed, or the Location
\* nodes of stopDoc followed by text that is not well-formed.
\* src/parsers.py:108
InitStops ==
    /\ stopXmlOk \in BOOLEAN
    /\ stopDoc \in StopDocs
    /\ stopIdx = 0 /\ stopPc = "parse" /\ stops = <<>> /\ stopExc = ""
    /\ stopResult = None
    /\ IdleExcept("stop")
NextStops == StopFromString \/ ParseLocation \/ ReturnStops
SpecStops == InitStops /\ [][NextStops]_vars

\* A call of one of the three parsers.
\* src/parsers.py:98, 153, 241
InitParsers == InitStops \/ InitDepartures \/ InitConnections
NextParsers == NextStops \/ NextDepartures \/ NextConnections
SpecParsers == InitParsers /\ [][NextParsers]_vars

(***************************************************************************)
(* Properties of parseStops and of the three parsers on malformed bodies.  *)
(***************************************************************************)
\* The Location node has a StopPoint whose reference and name are both
\* non-empty text.
LocationQualifies(location) ==
    /\ location.stopPoint # NoElem
    /\ HasText(Get(location.stopPoint).ref)
    /\ HasText(Get(location.stopPoint).name)

QualifyingLocations == SelectSeq(stopDoc, LocationQualifies)
\* The call on a well-formed response has ended.
StopDone == stopXmlOk /\ stopPc \in {"returned", "raised"}

\* C11 (as claimed): a call of parseStops on a well-formed response ends
\* without failing and returns one Stop for exactly the Location nodes
\* that have a StopPoint with non-empty reference and name, in document
\* order, and never more Stops than there are Location nodes.
C11_StopsOfLocations ==
    StopDone =>
        /\ stopPc = "returned"
        /\ Len(Get(stopResult)) = Len(QualifyingLocations)
        /\ Len(Get(stopResult)) <= Len(stopDoc)
        /\ \A k \in 1..Len(QualifyingLocations) :
              LET sp == Get(QualifyingLocations[k].stopPoint) IN
              /\ Get(stopResult)[k].id = Get(sp.ref).text
              /\ Get(stopResult)[k].name = Get(sp.name).text

\* The coordinate element holds a text that float() converts.
HasNumber(e) == e # NoElem /\ Get(e).text # None /\ Get(Get(e).text).kind = "decimal"

\* C12 (as claimed): no exception leaves a call of parseStops on a
\* well-formed response, and a Latitude or Longitude that is present but
\* is no number is treated as absent: the Stop of its Location has no
\* value for it.
C12_UnparseableTolerated ==
    /\ (stopXmlOk /\ stopPc # "parse") => stopExc = ""
    /\ stopPc = "returned" =>
          \A k \in 1..Len(QualifyingLocations) :
              LET geo == QualifyingLocations[k].geo IN
              (geo # NoElem /\ ~HasNumber(Get(geo).lat)) =>
                  Get(stopResult)[k].latitude = None

\* C13: a call of parseStops, parseDepartures or parseConnections on a
\* body that is not well-formed XML ends by raising ValueError, whatever
\* records precede the malformed part: it never reaches its loop, builds
\* no record and returns no list.
C13_MalformedFails ==
    /\ ~stopXmlOk =>
          /\ stopPc \in {"parse", "raised"} /\ stops = <<>> /\ stopResult = None
          /\ stopPc = "raised" => stopExc = "ValueError"
    /\ ~depXmlOk =>
          /\ depPc \in {"parse", "raised"} /\ departures = <<>> /\ depBuilt = <<>>
          /\ depResult = None
          /\ depPc = "raised" => depExc = "ValueError"
    /\ ~conXmlOk =>
          /\ conPc \in {"parse", "raised"} /\ connections = <<>> /\ conResult = None
          /\ conPc = "raised" => conExc = "ValueError"

\* C13 witness: a call on a malformed body that holds a record the parser
\* would have emitted has raised ValueError.
C13_Witness ==
    \/ ~stopXmlOk /\ stopPc = "raised" /\ Len(QualifyingLocations) > 0
    \/ ~conXmlOk /\ conPc = "raised" /\ \E k \in 1..Len(conDoc) : TripStep(conDoc[k]) # None


(***************************************************************************)
(* The disruption check: check_train_disruptions of src/utils.py and       *)
(* checkTrainDisruptions of src/src/utils.py.                              *)
(*                                                                         *)
(* A PtSituation node is [priority, summary, description, detail]: its     *)
(* first Priority, Summary, Description and Detail elements.  The text of  *)
(* a Priority is a sequence of characters, the other texts are strings.    *)
(* What the call prints is kept per notice: [pos, lines], pos the position *)
(* of the node in the response, lines the values printed for it.           *)
(***************************************************************************)
MaxSituations == 2     \* PtSituation nodes in a trip response

IsDigit(c) == \E k \in 1..10 : Digits[k] = c
DigitValue(c) == (CHOOSE k \in 1..10 : Digits[k] = c) - 1

\* The number a non-empty sequence of digits denotes.
RECURSIVE DigitsValue(_)
DigitsValue(ds) ==
    IF ds = <<>> THEN 0
    ELSE 10 * DigitsValue(SubSeq(ds, 1, Len(ds) - 1)) + DigitValue(ds[Len(ds)])

\* str.strip() of the blanks around a text.
RECURSIVE Strip(_)
Strip(cs) ==
    IF cs = <<>> THEN cs
    ELSE IF Head(cs) = " " THEN Strip(Tail(cs))
    ELSE IF cs[Len(cs)] = " " THEN Strip(SubSeq(cs, 1, Len(cs) - 1))
    ELSE cs

\* int(x) of an Optional text: TypeError of None; of a str the value of
\* its digits, blanks around them and a sign before them allowed,
\* ValueError of any other text.
IntOf(x) ==
    IF x = None THEN [exc |-> "TypeError", value |-> 0]
    ELSE
    LET cs == Strip(Get(x))
        signed == cs # <<>> /\ Head(cs) \in {"+", "-"}
        ds == IF signed THEN Tail(cs) ELSE cs
    IN  IF ds # <<>> /\ \A k \in 1..Len(ds) : IsDigit(ds[k])
        THEN [exc |-> "",
              value |-> IF signed /\ Head(cs) = "-" THEN -DigitsValue(ds) ELSE DigitsValue(ds)]
        ELSE [exc |-> "ValueError", value |-> 0]

\* The lines printed for the sub-fields that are there.
Present(elements) ==
    LET there == SelectSeq(elements, LAMBDA e : e # NoElem)
    IN  [k \in 1..Len(there) |-> Get(there[k]).text]

\* One iteration of the loop of check_train_disruptions: the exception it
\* raises ("" when none) and the lines it prints.
\* src/utils.py:296-311
SituationStep(situation) ==
    LET priority_element == situation.priority IN
    IF priority_element = NoElem THEN [exc |-> "", lines |-> <<>>]
    ELSE
    LET priority == IntOf(Get(priority_element).text) IN
    IF priority.exc # "" THEN [exc |-> priority.exc, lines |-> <<>>]
    ELSE IF 0 < priority.value /\ priority.value < 3
    THEN [exc |-> "",
          lines |-> <<priority.value>> \o
                    Present(<<situation.summary, situation.description, situation.detail>>)]
    ELSE [exc |-> "", lines |-> <<>>]

\* One iteration of the loop of checkTrainDisruptions, which takes .text
\* of whatever find returned: AttributeError of None.
\* src/src/utils.py:215-225
SituationStepLegacy(situation) ==
    IF situation.priority = NoElem THEN [exc |-> "AttributeError", lines |-> <<>>]
    ELSE
    LET priority == Get(situation.priority).text IN
    IF priority = None THEN [exc |-> "", lines |-> <<>>]
    ELSE
    LET n == IntOf(priority) IN
    IF n.exc # "" THEN [exc |-> n.exc, lines |-> <<>>]
    ELSE IF n.value > 0 /\ n.value < 3
    THEN IF NoElem \in {situation.summary, situation.description, situation.detail}
         THEN [exc |-> "AttributeError", lines |-> <<>>]
         ELSE [exc |-> "",
               lines |-> <<n.value, Get(situation.summary).text,
                           Get(situation.description).text, Get(situation.detail).text>>]
    ELSE [exc |-> "", lines |-> <<>>]

Situation(priority, summary, description, detail) ==
    [priority |-> priority, summary |-> summary,
     description |-> description, detail |-> detail]

\* A notice of the given priority text with all three sub-fields.
Notice(p) == Situation(Leaf(p), Leaf("Stoerung"), Leaf("S1 verspaetet"), Leaf("bis 18 Uhr"))

PriorityTexts ==
    { <<"0">>, <<"1">>, <<"2">>, <<"3">>, <<"5">>, <<"1","0">>, <<"-","1">>,
      <<" ","2">>, <<"h","i","g","h">>, <<"2",".","0">> }

\* The PtSituation nodes: the full notice under every priority text, nodes
\* with no or an empty Priority, and relevant notices that lack sub-fields.
Situations ==
    { Notice(p) : p \in PriorityTexts }
    \cup { Situation(e, Leaf("Stoerung"), Leaf("S1 verspaetet"), Leaf("bis 18 Uhr")) :
             e \in { NoElem, EmptyLeaf } }
    \cup { Situation(Leaf(<<"1">>), NoElem, Leaf("S1 verspaetet"), Leaf("bis 18 Uhr")),
           Situation(Leaf(<<"1">>), Leaf("Stoerung"), NoElem, Leaf("bis 18 Uhr")),
           Situation(Leaf(<<"2">>), Leaf("Stoerung"), Leaf("S1 verspaetet"), NoElem),
           Situation(Leaf(<<"2">>), NoElem, NoElem, NoElem),
           Situation(Leaf(<<"2">>), EmptyLeaf, Leaf("S1 verspaetet"), Leaf("bis 18 Uhr")) }

\* The response of the example: notices of priorities 0, 1, 2, 3 and 5.
ExampleSituations ==
    << Notice(<<"0">>), Notice(<<"1">>), Notice(<<"2">>), Notice(<<"3">>), Notice(<<"5">>) >>

SituationDocs ==
    UNION { [1..n -> Situations] : n \in 0..MaxSituations } \cup { ExampleSituations }

\* if response.status_code == 200: ... else: print the error, return None.
\* root.findall returns a list, never None, so `return False` is not reached.
\* src/utils.py:287-294, 313-316; src/src/utils.py:206-213, 227-230
CheckStatus ==
    /\ disPc = "status"
    /\ IF disStatus = 200
       THEN disPc' = "loop" /\ disResult' = disResult
       ELSE disPc' = "returned" /\ disResult' = Some("None")
    /\ UNCHANGED <<disVariant, disStatus, situations, disIdx, disPrinted, disExc, disOthers>>

\* One iteration of the loop over the PtSituation nodes.
\* src/utils.py:296-311; src/src/utils.py:215-225
CheckSituation ==
    /\ disPc = "loop"
    /\ disIdx < Len(situations)
    /\ LET step == IF disVariant = "utils"
                   THEN SituationStep(situations[disIdx + 1])
                   ELSE SituationStepLegacy(situations[disIdx + 1])
       IN  /\ disIdx' = disIdx + 1
           /\ disExc' = step.exc
           /\ disPc' = IF step.exc # "" THEN "raised" ELSE "loop"
           /\ disPrinted' = IF step.lines # <<>>
                            THEN Append(disPrinted, [pos |-> disIdx + 1, lines |-> step.lines])
                            ELSE disPrinted
    /\ UNCHANGED <<disVariant, disStatus, situations, disResult, disOthers>>

\* The loop is over: return True.
\* src/utils.py:312; src/src/utils.py:226
ReturnTrue ==
    /\ disPc = "loop"
    /\ disIdx = Len(situations)
    /\ disPc' = "returned"
    /\ disResult' = Some("True")
    /\ UNCHANGED <<disVariant, disStatus, situations, disIdx, disPrinted, disExc, disOthers>>

\* The response has arrived: a status code and, when it is 200, a
\* well-formed body.
\* src/utils.py:283-284; src/src/utils.py:202-203
InitDisruptions ==
    /\ disVariant \in {"utils", "src_utils"}
    /\ \/ disStatus = 200 /\ situations \in SituationDocs
       \/ disStatus \in {204, 404, 500} /\ situations \in {<<>>, ExampleSituations}
    /\ disIdx = 0 /\ disPc = "status" /\ disPrinted = <<>> /\ disExc = ""
    /\ disResult = None
    /\ IdleExcept("dis")
NextDisruptions == CheckStatus \/ CheckSituation \/ ReturnTrue
SpecDisruptions == InitDisruptions /\ [][NextDisruptions]_vars

(***************************************************************************)
(* Properties of the disruption check.                                     *)
(***************************************************************************)
\* The node has a Priority whose text is a number.
HasPriority(situation) ==
    /\ situation.priority # NoElem
    /\ IntOf(Get(situation.priority).text).exc = ""
PriorityOf(situation) == IntOf(Get(situation.priority).text).value
\* The notice is relevant: its priority is 1 or 2.
Relevant(situation) == HasPriority(situation) /\ PriorityOf(situation) \in {1, 2}

\* The positions of the relevant notices, in document order.
RECURSIVE RelevantPositions(_)
RelevantPositions(n) ==
    IF n = 0 THEN <<>>
    ELSE IF Relevant(situations[n]) THEN Append(RelevantPositions(n - 1), n)
    ELSE RelevantPositions(n - 1)

\* The call on a 200 response has ended.
DisDone == disStatus = 200 /\ disPc \in {"returned", "raised"}

\* C14 (as claimed): a disruption check of a 200 response ends without an
\* error having printed exactly the notices of priority 1 or 2, in
\* document order, each as its priority followed by those of summary,
\* description and detail that it has.
C14_DisruptionFilter ==
    DisDone =>
        LET expected == RelevantPositions(Len(situations)) IN
        /\ disExc = ""
        /\ Len(disPrinted) = Len(expected)
        /\ \A k \in 1..Len(expected) :
              LET situation == situations[expected[k]] IN
              /\ disPrinted[k].pos = expected[k]
              /\ disPrinted[k].lines =
                    <<PriorityOf(situation)>> \o
                    Present(<<situation.summary, situation.description, situation.detail>>)

\* C15 (as claimed): the disruption check returns True when it found a
\* disruption on a 200 response, False when the response has none, and
\* None on a response of another status.
C15_ResultValue ==
    disPc = "returned" =>
        IF disStatus = 200
        THEN /\ disResult \in {Some("True"), Some("False")}
             /\ disPrinted # <<>> => disResult = Some("True")
             /\ situations = <<>> => disResult = Some("False")
        ELSE disResult = Some("None")

\* C16 (as claimed): a node without a parseable priority (no Priority
\* element, no text, text that is no number) is skipped: the call does not
\* fail on it, prints nothing for it and goes on to the nodes after it.
C16_UnparseablePrioritySkipped ==
    /\ (disPc = "raised" /\ disIdx > 0) => HasPriority(situations[disIdx])
    /\ \A k \in 1..Len(disPrinted) : HasPriority(situations[disPrinted[k].pos])
    /\ (disPc = "returned" /\ disStatus = 200) => disIdx = Len(situations)


(***************************************************************************)
(* convert_iso_duration.  Strings are sequences of characters.             *)
(***************************************************************************)
MaxDigits == 2         \* digits of a component of a duration

\* The number of digits of s from position pos on.
RECURSIVE DigitRun(_, _)
DigitRun(s, pos) ==
    IF pos <= Len(s) /\ IsDigit(s[pos]) THEN 1 + DigitRun(s, pos + 1) ELSE 0

\* (?:(\d+)<unit>)? at position pos: the group (None when the optional
\* part matches nothing) and the position after it.  \d+ takes all the
\* digits there are; the part matches only if the unit letter follows.
ReOptional(s, pos, unit) ==
    LET n == DigitRun(s, pos) IN
    IF n >= 1 /\ pos + n <= Len(s) /\ s[pos + n] = unit
    THEN [group |-> Some(SubSeq(s, pos, pos + n - 1)), next |-> pos + n + 1]
    ELSE [group |-> None, next |-> pos]

\* re.match(r"PT(?:(\d+)H)?(?:(\d+)M)?(?:(\d+)S)?", duration): None, or
\* the three groups of a match at the start of the string; what follows
\* the match is not looked at.
\* src/utils.py:60
ReMatch(s) ==
    IF Len(s) >= 2 /\ s[1] = "P" /\ s[2] = "T"
    THEN LET h == ReOptional(s, 3, "H")
             m == ReOptional(s, h.next, "M")
             sec == ReOptional(s, m.next, "S")
         IN  Some([hours |-> h.group, minutes |-> m.group, seconds |-> sec.group])
    ELSE None

\* str(n) of a natural number.
RECURSIVE IntToStr(_)
IntToStr(n) ==
    IF n < 10 THEN <<Digits[n + 1]>>
    ELSE IntToStr(n \div 10) \o <<Digits[(n % 10) + 1]>>

\* " ".join(parts)
RECURSIVE Join(_)
Join(parts) ==
    IF parts = <<>> THEN <<>>
    ELSE IF Len(parts) = 1 THEN parts[1]
    ELSE parts[1] \o <<" ">> \o Join(Tail(parts))

\* f"{int(group)} <label>" when the group is a non-empty string.
Part(group, label) ==
    IF group # None /\ Get(group) # <<>>
    THEN << IntToStr(IntOf(group).value) \o <<" ">> \o label >>
    ELSE <<>>

\* The mutant of the formatter that leaves out a component of value 0.
ConvertIsoDurationSkipZero(duration_) ==
    LET match == ReMatch(duration_)
        NonZero(group, label) ==
            IF group # None /\ IntOf(group).value # 0 THEN Part(group, label) ELSE <<>>
    IN  IF match # None
        THEN Join(NonZero(Get(match).hours, <<"h","r">>)
                  \o NonZero(Get(match).minutes, <<"m","i","n">>)
                  \o NonZero(Get(match).seconds, <<"s","e","c">>))
        ELSE duration_

\* convert_iso_duration(duration)
\* src/utils.py:49-78
ConvertIsoDuration(duration_) ==
    LET match == ReMatch(duration_) IN
    IF match # None
    THEN Join(Part(Get(match).hours, <<"h","r">>)
              \o Part(Get(match).minutes, <<"m","i","n">>)
              \o Part(Get(match).seconds, <<"s","e","c">>))
    ELSE duration_

DurationDigits == {"0", "1"}
\* The digit strings of a component, and a component: none, or digits and
\* the unit letter.
RECURSIVE DigitStrings(_)
DigitStrings(n) ==
    IF n = 0 THEN {}
    ELSE { <<d>> : d \in DurationDigits }
         \cup { ds \o <<d>> : ds \in DigitStrings(n - 1), d \in DurationDigits }
Components(unit) == { <<>> } \cup { ds \o <<unit>> : ds \in DigitStrings(MaxDigits) }

\* The durations of the examples: PT1H23M, PT45M, PT2H, "1 day", PT1D,
\* PT5M30X, PT.
ExampleDurations ==
    { <<"P","T","1","H","2","3","M">>, <<"P","T","4","5","M">>, <<"P","T","2","H">>,
      <<"1"," ","d","a","y">>, <<"P","T","1","D">>,
      <<"P","T","5","M","3","0","X">>, <<"P","T">> }

\* The arguments: PT and components in H-M-S order, followed by nothing,
\* by text outside the grammar or by an hours component out of order; the
\* same behind a start that is not PT; the examples.
Durations ==
    { <<"P","T">> \o h \o m \o sec \o tail :
        h \in Components("H"), m \in Components("M"), sec \in Components("S"),
        tail \in { <<>>, <<"X">>, <<"1","D">>, <<"1","H">> } }
    \cup { head \o h \o m \o sec :
        head \in { <<"P">>, <<"p","t">>, <<" ","P","T">> },
        h \in Components("H"), m \in Components("M"), sec \in Components("S") }
    \cup ExampleDurations

\* A call of convert_iso_duration.
\* src/utils.py:49-78
Convert ==
    /\ durResult = None
    /\ durResult' = Some(ConvertIsoDuration(duration))
    /\ UNCHANGED <<duration, durOthers>>

InitDuration == duration \in Durations /\ durResult = None /\ IdleExcept("dur")
NextDuration == Convert
SpecDuration == InitDuration /\ [][NextDuration]_vars

(***************************************************************************)
(* Properties of convert_iso_duration.  The grammar is read off the        *)
(* string: PT, then the hours, minutes and seconds components, each empty  *)
(* or digits and its unit letter, and nothing else.                        *)
(***************************************************************************)
\* seg is a component of the unit: empty, or one or more digits and the
\* unit letter.
IsComponent(seg, unit) ==
    \/ seg = <<>>
    \/ /\ Len(seg) >= 2
       /\ seg[Len(seg)] = unit
       /\ \A k \in 1..(Len(seg) - 1) : IsDigit(seg[k])

\* s splits at i and j into PT, an hours, a minutes and a seconds component.
SplitsAt(s, i, j) ==
    /\ IsComponent(SubSeq(s, 3, i), "H")
    /\ IsComponent(SubSeq(s, i + 1, j), "M")
    /\ IsComponent(SubSeq(s, j + 1, Len(s)), "S")

\* s matches PT[<digits>H][<digits>M][<digits>S] as a whole.
MatchesGrammar(s) ==
    /\ Len(s) >= 2 /\ s[1] = "P" /\ s[2] = "T"
    /\ \E i \in 2..Len(s) : \E j \in i..Len(s) : SplitsAt(s, i, j)

\* The numeral of the digits ds: ds without its leading zeros.
RECURSIVE Numeral(_)
Numeral(ds) == IF Len(ds) > 1 /\ Head(ds) = "0" THEN Numeral(Tail(ds)) ELSE ds

\* What is listed for a component: nothing when it is empty, else its
\* numeral, a blank and the label.
Listed(seg, label) ==
    IF seg = <<>> THEN <<>>
    ELSE << Numeral(SubSeq(seg, 1, Len(seg) - 1)) \o <<" ">> \o label >>

\* The text claimed for a string of the grammar.
Formatted(s) ==
    LET i == CHOOSE i \in 2..Len(s) : \E j \in i..Len(s) : SplitsAt(s, i, j)
        j == CHOOSE j \in i..Len(s) : SplitsAt(s, i, j)
    IN  Join(Listed(SubSeq(s, 3, i), <<"h","r">>)
             \o Listed(SubSeq(s, i + 1, j), <<"m","i","n">>)
             \o Listed(SubSeq(s, j + 1, Len(s)), <<"s","e","c">>))

\* C17: for an argument that matches the grammar as a whole, the result of
\* convert_iso_duration lists exactly the components present, in H-M-S
\* order and joined by blanks, each as its number and "hr", "min" or
\* "sec"; a component of value 0 is listed too.
C17_DurationFormatting ==
    (durResult # None /\ MatchesGrammar(duration)) =>
        Get(durResult) = Formatted(duration)

\* C17 witness: the call on PT0H11M has returned "0 hr 11 min".
C17_Witness ==
    /\ duration = <<"P","T","0","H","1","1","M">>
    /\ durResult = Some(<<"0"," ","h","r"," ","1","1"," ","m","i","n">>)

\* C18 (as claimed): for an argument that does not match the grammar as a
\* whole, and for PT without a component, the result of
\* convert_iso_duration is the argument itself.
C18_PassThrough ==
    (durResult # None /\ (~MatchesGrammar(duration) \/ duration = <<"P","T">>)) =>
        Get(durResult) = duration


(***************************************************************************)
(* The template filler: fill_template of src/utils.py and                  *)
(* VVSApiClient._fillTemplate of src/api.py.                               *)
(*                                                                         *)
(* A mapping is the sequence of its items [key, val] in iteration order    *)
(* (a dict keeps insertion order).  A value is [isInt, text, n]: the str   *)
(* text, or the int n.                                                     *)
(***************************************************************************)
MaxPieces == 2         \* pieces a template is put together from

StrValue(text) == [isInt |-> FALSE, text |-> text, n |-> 0]
IntValue(n) == [isInt |-> TRUE, text |-> <<>>, n |-> n]
Item(key, val) == [key |-> key, val |-> val]

\* f"{{{{{key}}}}}": the key between two pairs of braces.
Placeholder(key) == <<"{","{">> \o key \o <<"}","}">>

\* s.replace(old, new) for a non-empty old: the occurrences of old are
\* found from left to right, each search starting behind the occurrence
\* before it.
RECURSIVE Replace(_, _, _)
Replace(s, old, new) ==
    IF Len(s) < Len(old) THEN s
    ELSE IF SubSeq(s, 1, Len(old)) = old
    THEN new \o Replace(SubSeq(s, Len(old) + 1, Len(s)), old, new)
    ELSE <<Head(s)>> \o Replace(Tail(s), old, new)

\* str(value)
StrOf(val) == IF val.isInt THEN IntToStr(val.n) ELSE val.text

\* for key, value in values.items():
\*     filledTemplate = filledTemplate.replace(placeholder, str(value))
\* src/api.py:81-83; src/utils.py:45-46
RECURSIVE ReplaceAll(_, _)
ReplaceAll(template_, items) ==
    IF items = <<>> THEN template_
    ELSE ReplaceAll(Replace(template_, Placeholder(items[1].key), StrOf(items[1].val)),
                    Tail(items))

\* fill_template(template, values): str.replace raises TypeError when
\* given a value that is no str.
\* src/utils.py:34-47
FillTemplate(template_, values_) ==
    IF \E k \in 1..Len(values_) : values_[k].val.isInt
    THEN [exc |-> "TypeError", text |-> <<>>]
    ELSE [exc |-> "", text |-> ReplaceAll(template_, values_)]

\* {**defaults, **kwargs}: the items of defaults, each with the value
\* kwargs has for its key if it has one, then the other items of kwargs.
\* src/api.py:77
Merge(defaults, kwargs) ==
    LET Given(key) == \E k \in 1..Len(kwargs) : kwargs[k].key = key
        ValueOf(key) == kwargs[CHOOSE k \in 1..Len(kwargs) : kwargs[k].key = key].val
        IsDefault(item) == \E k \in 1..Len(defaults) : defaults[k].key = item.key
    IN  [k \in 1..Len(defaults) |->
            IF Given(defaults[k].key)
            THEN Item(defaults[k].key, ValueOf(defaults[k].key))
            ELSE defaults[k]]
        \o SelectSeq(kwargs, LAMBDA item : ~IsDefault(item))

kTimestamp == <<"t","i","m","e","s","t","a","m","p">>
kRequestorRef == <<"r","e","q","u","e","s","t","o","r","R","e","f">>

\* defaults of _fillTemplate, now being datetime.now().strftime(timeFormat).
\* src/api.py:71-74
Defaults(now) ==
    << Item(kTimestamp, StrValue(now)),
       Item(kRequestorRef, StrValue(<<"u","n","i","0","7","1","9">>)) >>

\* VVSApiClient._fillTemplate(template, **kwargs)
\* src/api.py:59-85
ApiFillTemplate(template_, kwargs, now) ==
    [exc |-> "", text |-> ReplaceAll(template_, Merge(Defaults(now), kwargs))]

\* The clock reading of the call, formatted by timeFormat.
Now == <<"2","0","2","5","-","0","9","-","2","2","T","1","8",":","0","0",":","0","0">>

kA == <<"a">>
kB == <<"b">>
kC == <<"c">>

\* The pieces of a template: placeholders of the keys a, b, c and
\* timestamp, plain text, an opening pair of braces, and text that ends a
\* placeholder of b.
Pieces ==
    { Placeholder(kA), Placeholder(kB), Placeholder(kC), Placeholder(kTimestamp),
      <<"x">>, <<"{","{">>, <<"b","}","}">> }

RECURSIVE Templates(_)
Templates(n) ==
    IF n = 0 THEN { <<>> }
    ELSE Templates(n - 1) \cup { t \o piece : t \in Templates(n - 1), piece \in Pieces }

ValuesOfA ==
    { StrValue(<<"v">>), StrValue(Placeholder(kB)), StrValue(<<"{","{">>), IntValue(40) }
ValuesOfB == { StrValue(<<"w">>), StrValue(<<>>), StrValue(Placeholder(kA)) }

\* The mappings over the keys a and b (c is never mapped): none, one or
\* both of them, in either order.
Mappings ==
    { <<>> }
    \cup { << Item(kA, va) >> : va \in ValuesOfA }
    \cup { << Item(kB, vb) >> : vb \in ValuesOfB }
    \cup { << Item(kA, va), Item(kB, vb) >> : va \in ValuesOfA, vb \in ValuesOfB }
    \cup { << Item(kB, vb), Item(kA, va) >> : va \in ValuesOfA, vb \in ValuesOfB }

AllStr(items) == \A k \in 1..Len(items) : ~items[k].val.isInt

\* A call of the template filler.
\* src/utils.py:34-47; src/api.py:59-85
Fill ==
    /\ tplResult = None
    /\ tplResult' = Some(IF tplVariant = "fill_template"
                         THEN FillTemplate(template, values)
                         ELSE ApiFillTemplate(template, values, Now))
    /\ UNCHANGED <<tplVariant, template, values, tplOthers>>

\* fill_template is called with str values, as its callers do;
\* _fillTemplate with the keyword arguments of its caller.
InitTemplate ==
    /\ tplVariant \in {"fill_template", "_fillTemplate"}
    /\ template \in Templates(MaxPieces)
    /\ values \in Mappings
    /\ tplVariant = "fill_template" => AllStr(values)
    /\ tplResult = None
    /\ IdleExcept("tpl")
NextTemplate == Fill
SpecTemplate == InitTemplate /\ [][NextTemplate]_vars

(***************************************************************************)
(* Properties of the template filler.                                      *)
(***************************************************************************)
\* The mapping the call fills with: for _fillTemplate the defaults too.
Mapping ==
    IF tplVariant = "fill_template" THEN values ELSE Merge(Defaults(Now), values)

\* The template read once from left to right: where the placeholder of a
\* mapped key stands, its value; every other character as it is.
RECURSIVE Substituted(_, _)
Substituted(t, items) ==
    IF t = <<>> THEN <<>>
    ELSE IF \E k \in 1..Len(items) :
               LET ph == Placeholder(items[k].key) IN
               Len(t) >= Len(ph) /\ SubSeq(t, 1, Len(ph)) = ph
    THEN LET k == CHOOSE k \in 1..Len(items) :
                     LET ph == Placeholder(items[k].key) IN
                     Len(t) >= Len(ph) /\ SubSeq(t, 1, Len(ph)) = ph
             ph == Placeholder(items[k].key)
         IN  StrOf(items[k].val) \o Substituted(SubSeq(t, Len(ph) + 1, Len(t)), items)
    ELSE <<Head(t)>> \o Substituted(Tail(t), items)

\* C19 (as claimed): the filler raises nothing and its result is the
\* template with every placeholder of a key of the mapping replaced by
\* the value of that key, every other placeholder and all other text
\* left as it is.
C19_TemplateFilled ==
    tplResult # None =>
        /\ Get(tplResult).exc = ""
        /\ Get(tplResult).text = Substituted(template, Mapping)

\* The items of a mapping in the opposite iteration order.
Reversed(items) == [k \in 1..Len(items) |-> items[Len(items) - k + 1]]

\* C29 (as claimed): the result of the filler is the same for the other
\* iteration order of the mapping, and a value is inserted as it is: the
\* text put in for one key is not searched for the placeholders of the
\* other keys.
C29_OrderIndependentOpaque ==
    tplResult # None =>
        /\ Get(tplResult) =
               IF tplVariant = "fill_template"
               THEN FillTemplate(template, Reversed(values))
               ELSE ApiFillTemplate(template, Reversed(values), Now)
        /\ Get(tplResult).exc = "" =>
               \A k \in 1..Len(Mapping) :
                   template = Placeholder(Mapping[k].key) =>
                       Get(tplResult).text = StrOf(Mapping[k].val)


(***************************************************************************)
(* The facade of src/tools.py over VVSApiClient of src/api.py.             *)
(*                                                                         *)
(* The transport is what session.post does: [exc, status], exc the name of *)
(* the requests exception it raises ("" when it returns a response),       *)
(* status the status code of the response.  The body of the response is    *)
(* "ok" (the parser returns a list), "malformed" (not well-formed XML) or  *)
(* "bad_record" (well-formed, but the parser raises on one of its nodes).  *)
(***************************************************************************)
FacadeCalls == {"findStops", "listDepartures", "listConnections"}

Raises(exc) == [exc |-> exc, status |-> 0]
Responds(status) == [exc |-> "", status |-> status]
Transports ==
    { Raises("ConnectionError"), Raises("Timeout") }
    \cup { Responds(status) : status \in {200, 204, 304, 400, 404, 500, 503} }
Bodies == {"ok", "malformed", "bad_record"}

\* The mutant of raise_for_status that raises for server errors only.
RaiseForStatusServerOnly(status) == 500 <= status /\ status < 600

\* response.raise_for_status() raises HTTPError: for a status from 400 to
\* 599.  A status below 400 (a redirect that was not followed too) passes.
\* src/api.py:106
RaiseForStatus(status) == 400 <= status /\ status < 600

\* with VVSApiClient() as client: __init__ opens a requests.Session.
\* src/tools.py:30, 53, 95; src/api.py:24-36, 197-199
EnterClient ==
    /\ facPc = "enter"
    /\ facSession' = "open"
    /\ facPc' = "request"
    /\ UNCHANGED <<facCall, facTransport, facBody, facRequests, facParserRuns,
                   facExc, facResult, facOthers>>

\* The mutant of the request that posts again when the transport fails.
MakeRequestRetrying ==
    /\ facPc = "request"
    /\ IF facTransport.exc # "" \/ RaiseForStatus(facTransport.status)
       THEN facRequests' = facRequests + 2 /\ facExc' = "RequestException" /\ facPc' = "exit"
       ELSE facRequests' = facRequests + 1 /\ facExc' = "" /\ facPc' = "parse"
    /\ UNCHANGED <<facCall, facTransport, facBody, facSession, facParserRuns,
                   facResult, facOthers>>

\* client.findStops / getDepartures / getTripConnections: the template is
\* loaded and filled and _makeRequest posts it once; an exception of
\* session.post or of raise_for_status is raised again as
\* requests.RequestException, else the response text is returned.
\* src/api.py:87-110, 122-126, 146-154, 180-191
MakeRequest ==
    /\ facPc = "request"
    /\ facRequests' = facRequests + 1
    /\ IF facTransport.exc # "" \/ RaiseForStatus(facTransport.status)
       THEN facExc' = "RequestException" /\ facPc' = "exit"
       ELSE facExc' = "" /\ facPc' = "parse"
    /\ UNCHANGED <<facCall, facTransport, facBody, facSession, facParserRuns,
                   facResult, facOthers>>

\* return VVSResponseParser.parse...(xmlResponse); listConnections first
\* runs xml.dom.minidom.parseString on the response, which raises
\* ExpatError for a malformed body, and writes trip_connections.xml.
\* src/tools.py:32, 59, 104-111
ParseResponse ==
    /\ facPc = "parse"
    /\ facPc' = "exit"
    /\ IF facCall = "listConnections" /\ facBody = "malformed"
       THEN facExc' = "ExpatError" /\ facParserRuns' = facParserRuns
            /\ facResult' = facResult
       ELSE /\ facParserRuns' = facParserRuns + 1
            /\ facExc' = IF facBody = "malformed" THEN "ValueError"
                         ELSE IF facBody = "bad_record" THEN "TypeError" ELSE ""
            /\ facResult' = IF facBody = "ok" THEN Some("list") ELSE facResult
    /\ UNCHANGED <<facCall, facTransport, facBody, facSession, facRequests, facOthers>>

\* The mutant of __exit__ that closes the session only when no exception
\* is in flight.
ExitClientOnSuccess ==
    /\ facPc = "exit"
    /\ facSession' = IF facExc = "" THEN "closed" ELSE facSession
    /\ facPc' = "done"
    /\ UNCHANGED <<facCall, facTransport, facBody, facRequests, facParserRuns,
                   facExc, facResult, facOthers>>

\* __exit__ closes the session and returns None: the value is returned or
\* the exception goes on to the caller.
\* src/api.py:193-203
ExitClient ==
    /\ facPc = "exit"
    /\ facSession' = "closed"
    /\ facPc' = "done"
    /\ UNCHANGED <<facCall, facTransport, facBody, facRequests, facParserRuns,
                   facExc, facResult, facOthers>>

\* A function of the facade is called; what the transport and the parser
\* will do is given by the remote system.
\* src/tools.py:15, 35, 62
InitFacade ==
    /\ facCall \in FacadeCalls
    /\ facTransport \in Transports
    /\ facBody \in Bodies
    /\ facPc = "enter" /\ facSession = "none" /\ facRequests = 0
    /\ facParserRuns = 0 /\ facExc = "" /\ facResult = None
    /\ IdleExcept("fac")
NextFacade == EnterClient \/ MakeRequest \/ ParseResponse \/ ExitClient
SpecFacade == InitFacade /\ [][NextFacade]_vars

(***************************************************************************)
(* Properties of the facade.                                               *)
(***************************************************************************)
\* The transport fails: session.post raises, or the response has an error
\* status (a client error 4xx or a server error 5xx).
TransportFails ==
    \/ facTransport.exc # ""
    \/ facTransport.status \div 100 \in {4, 5}

C30_SessionClosed ==
    /\ facPc = "done" => facSession = "closed"
    /\ facPc \in {"request", "parse", "exit"} => facSession = "open"
    /\ facSession = "closed" => facPc = "done"
    /\ facPc = "enter" => facSession = "none"

\* C30 witness: a call has ended with the exception of the parser, its
\* session closed.
C30_Witness ==
    /\ facPc = "done"
    /\ facExc \in {"ValueError", "TypeError", "ExpatError"}
    /\ facParserRuns = 1
    /\ facSession = "closed"

(***************************************************************************)
(* The default departure time of tools.listDepartures and                  *)
(* VVSApiClient.getDepartures.                                             *)
(*                                                                         *)
(* The clock counts half seconds.  The default value of a parameter is     *)
(* evaluated once, when the def statement is executed, that is when the    *)
(* module is loaded; src/tools.py imports src/api.py before it defines     *)
(* listDepartures.  A request is [call, at, omitted, departureTime]: the   *)
(* function called, the clock at the call, whether the call omitted        *)
(* departureTime, and the departure time placed in the request, in whole   *)
(* seconds.                                                                *)
(***************************************************************************)
MaxClock == 3          \* clock values after src/api.py was loaded
MaxCalls == 2          \* calls made after the modules were loaded

\* strftime("%Y-%m-%dT%H:%M:%S"): the fraction of the second is dropped.
\* src/config.py:23; src/tools.py:51; src/api.py:131
Strftime(t) == t \div 2

\* departureTime: Optional[datetime] = datetime.now()
\* src/tools.py:37
ToolsDefaultDepartureTime == clkToolsLoaded

\* departureTime: Optional[str] = datetime.now().strftime(timeFormat)
\* src/api.py:131
ApiDefaultDepartureTime == Strftime(clkApiLoaded)

\* The datetimes a caller passes explicitly.
ExplicitTimes == {0, 2 * MaxClock + 1}

\* Time passes.
Tick ==
    /\ clkNow < MaxClock
    /\ clkNow' = clkNow + 1
    /\ UNCHANGED <<clkApiLoaded, clkToolsLoaded, clkRequests, clkOthers>>

\* tools.listDepartures(stopId) or tools.listDepartures(stopId, t): the
\* datetime is formatted and passed on to client.getDepartures, which
\* fills it into the request.
\* src/tools.py:35-59; src/api.py:146-152
ListDeparturesCall ==
    /\ Len(clkRequests) < MaxCalls
    /\ \E arg \in {None} \cup {Some(t) : t \in ExplicitTimes} :
          LET departureTime == IF arg = None THEN ToolsDefaultDepartureTime
                               ELSE Get(arg)
              departureTimeStr == Strftime(departureTime)
          IN  clkRequests' = Append(clkRequests,
                  [call |-> "listDepartures", at |-> clkNow,
                   omitted |-> (arg = None), departureTime |-> departureTimeStr])
    /\ UNCHANGED <<clkApiLoaded, clkToolsLoaded, clkNow, clkOthers>>

\* client.getDepartures(stopPointRef) or getDepartures(stopPointRef, s),
\* s a formatted time.
\* src/api.py:128-154
GetDeparturesCall ==
    /\ Len(clkRequests) < MaxCalls
    /\ \E arg \in {None} \cup {Some(Strftime(t)) : t \in ExplicitTimes} :
          LET departureTime == IF arg = None THEN ApiDefaultDepartureTime
                               ELSE Get(arg)
          IN  clkRequests' = Append(clkRequests,
                  [call |-> "getDepartures", at |-> clkNow,
                   omitted |-> (arg = None), departureTime |-> departureTime])
    /\ UNCHANGED <<clkApiLoaded, clkToolsLoaded, clkNow, clkOthers>>

\* src/api.py has been loaded at clock 0 and src/tools.py, which imports
\* it, at the same time or later; no call has been made.
InitClock ==
    /\ clkApiLoaded = 0
    /\ clkToolsLoaded \in {0, 1}
    /\ clkNow = clkToolsLoaded
    /\ clkRequests = <<>>
    /\ IdleExcept("clk")
NextClock == Tick \/ ListDeparturesCall \/ GetDeparturesCall
SpecClock == InitClock /\ [][NextClock]_vars

(***************************************************************************)
(* Properties of the default departure time.                               *)
(***************************************************************************)
\* C21 (as claimed): the departure time placed in the request of a call
\* that omits departureTime is the clock value at the moment of that call
\* (to the second, as formatted).
C21_DefaultIsNowAtCall ==
    \A k \in 1..Len(clkRequests) :
        clkRequests[k].omitted =>
            clkRequests[k].departureTime = Strftime(clkRequests[k].at)

\* What the code does: the departure time of every call that omits it is
\* the clock value at which the module of the function was loaded.
C21_DefaultIsLoadTime ==
    \A k \in 1..Len(clkRequests) :
        clkRequests[k].omitted =>
            clkRequests[k].departureTime =
                IF clkRequests[k].call = "listDepartures"
                THEN Strftime(clkToolsLoaded) ELSE Strftime(clkApiLoaded)

(***************************************************************************)
(* DepartureStatistics of src/statistic.py.                                *)
(*                                                                         *)
(* A text is a sequence of one-character strings.  A CSV file is the       *)
(* sequence of its lines, each line the text csv.writer wrote for one      *)
(* row; the files of the directory statistics/ are a function from file    *)
(* name to None (no such file) or <<file>>.  A Departure is what           *)
(* collectStatistics reads of it: [journeyRef, line, delayMinutes,         *)
(* scheduledDateTime], the last two Optional; a scheduled datetime is its  *)
(* local wall clock [y, mo, d, h, mi, s].                                  *)
(***************************************************************************)
MaxPolls == 3          \* collectStatistics polls made

\* str(n) for an int.
Str(n) == IF n < 0 THEN <<"-">> \o IntToStr(0 - n) ELSE IntToStr(n)

Chars2(n) == <<Digits[(n \div 10) + 1], Digits[(n % 10) + 1]>>

\* self.headers
\* src/statistic.py:38
Headers ==
    << <<"J","o","u","r","n","e","y","R","e","f">>, <<"D","a","t","e","T","i","m","e">>,
       <<"L","i","n","e">>, <<"D","e","l","a","y">> >>

\* csv.writer, one field (QUOTE_MINIMAL): a field holding the delimiter,
\* the quote character or a line break is put between quote characters,
\* its own quote characters doubled.
\* src/statistic.py:61-62, 98-100, 119-122
CsvQuote(field) ==
    IF \E k \in 1..Len(field) : field[k] \in {",", "\"", "\n", "\r"}
    THEN <<"\"">> \o Replace(field, <<"\"">>, <<"\"", "\"">>) \o <<"\"">>
    ELSE field

\* writer.writerow(fields): the fields, joined by commas.
\* src/statistic.py:62, 122
RECURSIVE WriteRow(_)
WriteRow(fields) ==
    IF Len(fields) = 1 THEN CsvQuote(fields[1])
    ELSE CsvQuote(fields[1]) \o <<",">> \o WriteRow(Tail(fields))

\* csv.reader, one line, read from position pos on: a quote character at
\* the start of a field opens a quoted part, in which a doubled quote
\* character is one quote character and a single one ends the part; a
\* comma outside a quoted part ends the field.
\* src/statistic.py:49, 84
RECURSIVE ReadFields(_, _, _, _, _)
ReadFields(s, pos, field, inQuotes, fields) ==
    IF pos > Len(s) THEN Append(fields, field)
    ELSE IF inQuotes
    THEN IF s[pos] # "\"" THEN ReadFields(s, pos + 1, Append(field, s[pos]), TRUE, fields)
         ELSE IF pos < Len(s) /\ s[pos + 1] = "\""
         THEN ReadFields(s, pos + 2, Append(field, "\""), TRUE, fields)
         ELSE ReadFields(s, pos + 1, field, FALSE, fields)
    ELSE IF s[pos] = "," THEN ReadFields(s, pos + 1, <<>>, FALSE, Append(fields, field))
    ELSE IF s[pos] = "\"" /\ field = <<>> THEN ReadFields(s, pos + 1, field, TRUE, fields)
    ELSE ReadFields(s, pos + 1, Append(field, s[pos]), FALSE, fields)

ReadRow(line) == ReadFields(line, 1, <<>>, FALSE, <<>>)

\* csv.DictReader(file): the first line names the columns; every other
\* line is a row, as a dict from column name to field.  The files here
\* are written by this class only: four columns in the order of
\* self.headers.
\* src/statistic.py:49-51, 83-89
DictRow(fields) ==
    [JourneyRef |-> fields[1], DateTime |-> fields[2], Line |-> fields[3],
     Delay |-> fields[4]]
DictReader(file) == [k \in 1..(Len(file) - 1) |-> DictRow(ReadRow(file[k + 1]))]

\* csv.DictWriter(file, fieldnames=self.headers): writeheader, writerows.
\* src/statistic.py:97-100
DictWriter(rows) ==
    <<WriteRow(Headers)>> \o
    [k \in 1..Len(rows) |->
        WriteRow(<<rows[k].JourneyRef, rows[k].DateTime, rows[k].Line, rows[k].Delay>>)]

\* The mutant of _loadExistingJourneyRefs that loads nothing.
LoadNoJourneyRefs(stored) == {}

\* DepartureStatistics(csvFilename): _loadExistingJourneyRefs reads the
\* JourneyRef of every row when the file exists.
\* src/statistic.py:29-54
LoadExistingJourneyRefs(stored) ==
    IF stored = None THEN {}
    ELSE LET rows == DictReader(Get(stored))
         IN  { rows[k].JourneyRef : k \in 1..Len(rows) }

\* _createCsvIfNotExists(): a file of the header line when there is none.
\* src/statistic.py:56-65
CreateCsvIfNotExists(stored) ==
    IF stored = None THEN Some(<<WriteRow(Headers)>>) ELSE stored

\* The mutant of _updateExistingJourney that writes back the rows of the
\* journey only.
UpdateDroppingOthers(file, journeyRef, delay) ==
    LET rows == DictReader(file)
        updated == [k \in 1..Len(rows) |-> [rows[k] EXCEPT !.Delay = Str(Get(delay))]]
    IN  DictWriter(SelectSeq(updated, LAMBDA row : row.JourneyRef = journeyRef))

\* _updateExistingJourney(journeyRef, delay) on an existing file: every
\* row is read, the Delay of the rows of the journey is set to str(delay)
\* unless delay is None, and the header and all rows are written back.
\* src/statistic.py:67-102
UpdateExistingJourney(file, journeyRef, delay) ==
    LET rows == DictReader(file)
        updated == [k \in 1..Len(rows) |->
                       IF rows[k].JourneyRef = journeyRef /\ delay # None
                       THEN [rows[k] EXCEPT !.Delay = Str(Get(delay))]
                       ELSE rows[k]]
    IN  DictWriter(updated)

\* departureDateTime.strftime("%Y-%m-%d %H:%M:%S")
\* src/statistic.py:121
DepartureStr(dt) ==
    IntToStr(dt.y) \o <<"-">> \o Chars2(dt.mo) \o <<"-">> \o Chars2(dt.d) \o <<" ">>
    \o Chars2(dt.h) \o <<":">> \o Chars2(dt.mi) \o <<":">> \o Chars2(dt.s)

\* _addNewJourney(journeyRef, line, delay, departureDateTime): one row is
\* appended to the file.
\* src/statistic.py:104-131
AddNewJourney(file, journeyRef, line, delay, departureDateTime) ==
    Append(file, WriteRow(<<journeyRef, DepartureStr(departureDateTime), line,
                            IF delay # None THEN Str(Get(delay)) ELSE <<>> >>))

\* f"statistics/{departureDate}.csv", departureDate being
\* scheduledDateTime.strftime("%d_%m_%Y")
\* src/statistic.py:179, 200
CsvFilename(scheduledDateTime) ==
    "statistics/" \o TwoDigits(scheduledDateTime.d) \o "_"
    \o TwoDigits(scheduledDateTime.mo) \o "_" \o ToString(scheduledDateTime.y) \o ".csv"

\* if not journeyRef or not line or not scheduledDateTime: continue
\* src/statistic.py:174-175
Essential(departure) ==
    /\ departure.journeyRef # <<>>
    /\ departure.line # <<>>
    /\ departure.scheduledDateTime # None

\* for depData in dateDepartures: a journey of existingJourneyRefs is
\* updated when the departure has a delay, any other journey is added
\* (and is in existingJourneyRefs from then on).
\* src/statistic.py:209-223
RECURSIVE ProcessDate(_, _, _)
ProcessDate(file, existingJourneyRefs, dateDepartures) ==
    IF dateDepartures = <<>> THEN file
    ELSE LET depData == Head(dateDepartures)
             journeyRef == depData.journeyRef
             delay == depData.delayMinutes
         IN  IF journeyRef \in existingJourneyRefs
             THEN ProcessDate(IF delay # None
                              THEN UpdateExistingJourney(file, journeyRef, delay)
                              ELSE file,
                              existingJourneyRefs, Tail(dateDepartures))
             ELSE ProcessDate(AddNewJourney(file, journeyRef, depData.line, delay,
                                            Get(depData.scheduledDateTime)),
                              existingJourneyRefs \cup {journeyRef}, Tail(dateDepartures))

\* The departures of the poll that go to the file of the name given: those
\* with the essential data whose scheduled date is the date of the file.
\* src/statistic.py:165-189
DateDepartures(departures_, name) ==
    SelectSeq(departures_,
              LAMBDA d : Essential(d) /\ CsvFilename(Get(d.scheduledDateTime)) = name)

\* for departureDate, dateDepartures in departuresByDate.items(): a
\* collector is made for the file of the date (which loads the journeys
\* of the file), the file is created when there is none, and the
\* departures of the date are processed.
\* src/statistic.py:195-223
CollectDate(stored, dateDepartures) ==
    IF dateDepartures = <<>> THEN stored
    ELSE Some(ProcessDate(Get(CreateCsvIfNotExists(stored)),
                          LoadExistingJourneyRefs(stored), dateDepartures))

(***************************************************************************)
(* The departures the polls receive.                                       *)
(***************************************************************************)
Sched(d, h, mi) == Some([y |-> 2025, mo |-> 9, d |-> d, h |-> h, mi |-> mi, s |-> 0])
StatDeparture(journeyRef, line, delay, sched) ==
    [journeyRef |-> journeyRef, line |-> line, delayMinutes |-> delay,
     scheduledDateTime |-> sched]

JourneyA == <<"J">>
JourneyB == <<"J", ",", "1">>
LineA == <<"U", "6">>
LineB == <<"S", "\"", "1">>

DepA5      == StatDeparture(JourneyA, LineA, Some(5), Sched(22, 16, 0))
DepANone   == StatDeparture(JourneyA, LineA, None, Sched(22, 16, 0))
DepAEarly  == StatDeparture(JourneyA, LineA, Some(0 - 1), Sched(22, 16, 0))
DepBNone   == StatDeparture(JourneyB, LineB, None, Sched(22, 16, 10))
DepB0      == StatDeparture(JourneyB, LineB, Some(0), Sched(22, 16, 10))
DepANext   == StatDeparture(JourneyA, LineA, Some(12), Sched(23, 0, 5))
DepNoRef   == StatDeparture(<<>>, LineA, Some(1), Sched(22, 16, 0))
DepNoTime  == StatDeparture(JourneyA, LineA, Some(1), None)

\* What listDepartures hands to a poll: no departure, one departure, or
\* several, a journey appearing twice among them or not.
DepartureLists ==
    { <<>>, <<DepA5>>, <<DepANone>>, <<DepAEarly>>, <<DepBNone>>, <<DepB0>>,
      <<DepANext>>, <<DepNoRef>>, <<DepNoTime>>,
      <<DepA5, DepA5>>, <<DepANone, DepA5>>, <<DepA5, DepANone>>,
      <<DepBNone, DepB0>>, <<DepA5, DepBNone>>, <<DepBNone, DepAEarly>>,
      <<DepA5, DepANext>>, <<DepNoRef, DepANone, DepNoTime>> }

CsvFilenames == { CsvFilename(Get(Sched(d, 0, 0))) : d \in {22, 23} }

\* collectStatistics(stopPointRef): the departures listDepartures returns
\* are grouped by scheduled date and each group is stored in the file of
\* its date.
\* src/statistic.py:137-235
CollectStatistics ==
    /\ statPolls < MaxPolls
    /\ \E departures_ \in DepartureLists :
          /\ statDepartures' = departures_
          /\ statFiles' = [name \in CsvFilenames |->
                              CollectDate(statFiles[name], DateDepartures(departures_, name))]
    /\ statPolls' = statPolls + 1
    /\ UNCHANGED statOthers

\* The directory statistics/ exists and is empty.
InitStatistics ==
    /\ statFiles = [name \in CsvFilenames |-> None]
    /\ statDepartures = <<>>
    /\ statPolls = 0
    /\ IdleExcept("stat")
NextStatistics == CollectStatistics
SpecStatistics == InitStatistics /\ [][NextStatistics]_vars

(***************************************************************************)
(* Properties of the statistics.                                           *)
(***************************************************************************)
Range(seq) == { seq[k] : k \in 1..Len(seq) }

\* The rows of the file of a name in a state of the files, read back.
RowsOf(files, name) == IF files[name] = None THEN <<>> ELSE DictReader(Get(files[name]))

\* The positions of the rows of a journey.
RowsOfJourney(rows, journeyRef) == { k \in 1..Len(rows) : rows[k].JourneyRef = journeyRef }

\* The delays a poll reports for a journey of a file, in their order.
ReportedDelays(departures_, name, journeyRef) ==
    SelectSeq(DateDepartures(departures_, name),
              LAMBDA d : d.journeyRef = journeyRef /\ d.delayMinutes # None)

\* C22: after every poll each file holds at most one row per JourneyRef,
\* and a departure of the poll whose journey was in the file of its date
\* before the poll appends no row: the file still holds the one row of
\* the journey, with the last delay the poll reports for it (the delay it
\* had when the poll reports none).
C22_OneRowPerJourney ==
    [][ \A name \in CsvFilenames :
            LET before == RowsOf(statFiles, name)
                after == RowsOf(statFiles', name)
            IN  /\ \A i, j \in 1..Len(after) :
                       after[i].JourneyRef = after[j].JourneyRef => i = j
                /\ \A k \in 1..Len(before) :
                       LET journeyRef == before[k].JourneyRef
                           delays == ReportedDelays(statDepartures', name, journeyRef)
                       IN  /\ RowsOfJourney(after, journeyRef) = {k}
                           /\ after[k].Delay =
                                  IF delays = <<>> THEN before[k].Delay
                                  ELSE Str(Get(delays[Len(delays)].delayMinutes))
      ]_vars

\* C22 witness: the second or a later poll reported journey J of 22
\* September without a delay and then with 5 minutes, and the file of the
\* date holds one row of J, with delay 5.
C22_Witness ==
    /\ statPolls >= 2
    /\ statDepartures = <<DepANone, DepA5>>
    /\ LET rows == RowsOf(statFiles, CsvFilename(Get(Sched(22, 0, 0))))
       IN  \E k \in 1..Len(rows) :
               /\ RowsOfJourney(rows, JourneyA) = {k}
               /\ rows[k].Delay = <<"5">>

\* C28: a poll leaves every row of every file in its place with its
\* JourneyRef, DateTime and Line, so that no file loses a row; the Delay
\* of a row changes only to a delay that the poll reports for the journey
\* of the row, so that a poll reporting no delay for a journey leaves
\* the delay recorded for it as it is.
C28_UpdateFrame ==
    [][ \A name \in CsvFilenames :
            LET before == RowsOf(statFiles, name)
                after == RowsOf(statFiles', name)
            IN  /\ statFiles[name] # None => statFiles'[name] # None
                /\ Len(after) >= Len(before)
                /\ \A k \in 1..Len(before) :
                       /\ after[k].JourneyRef = before[k].JourneyRef
                       /\ after[k].DateTime = before[k].DateTime
                       /\ after[k].Line = before[k].Line
                       /\ after[k].Delay # before[k].Delay =>
                              \E d \in Range(ReportedDelays(statDepartures', name,
                                                            before[k].JourneyRef)) :
                                  after[k].Delay = Str(Get(d.delayMinutes))
      ]_vars

\* C28 witness: a file holds the rows of two journeys, the first with the
\* delay 5 recorded for it, after a later poll that reported the first
\* journey without a delay.
C28_Witness ==
    /\ statPolls >= 2
    /\ statDepartures = <<DepANone>>
    /\ LET rows == RowsOf(statFiles, CsvFilename(Get(Sched(22, 0, 0))))
       IN  /\ Len(rows) = 2
           /\ rows[1].JourneyRef = JourneyA /\ rows[1].Delay = <<"5">>
           /\ rows[2].JourneyRef = JourneyB /\ rows[2].Line = LineB

(***************************************************************************)
(* Departure._parse_departure_response of src/departure.py.                *)
(*                                                                         *)
(* A StopEvent node is [line, timetabled, estimated]: its                  *)
(* PublishedLineName/Text, TimetabledTime and EstimatedTime elements.  A   *)
(* departure dict is [line, scheduled_time, estimated_time, delay], each   *)
(* None when the key is not there.  The text "HH:MM" that                  *)
(* strftime("%H:%M") gives is [h, mi], the two numbers it shows.           *)
(***************************************************************************)
\* convert_utc_to_local(utc_time_str): strptime with the format
\* "%Y-%m-%dT%H:%M:%SZ" raises TypeError for None and ValueError for a
\* text of another shape; else the instant in Berlin time.
\* src/utils.py:80-93
ConvertUtcToLocal(utc_time_str) ==
    IF utc_time_str = None THEN [exc |-> "TypeError", local |-> None]
    ELSE IF StrptimeOk(Get(utc_time_str)) /\ Get(utc_time_str).z
    THEN [exc |-> "", local |-> Some(ToStuttgart(Get(utc_time_str)))]
    ELSE [exc |-> "ValueError", local |-> None]

\* local_time.strftime("%H:%M"): hour and minute of the local wall clock;
\* the date and the seconds are not in the text.
\* src/departure.py:149, 155
StrftimeHM(dt) ==
    LET secOfDay == (dt.utc + dt.off) % 86400
    IN  [h |-> secOfDay \div 3600, mi |-> (secOfDay % 3600) \div 60]

\* datetime.strptime(text, "%H:%M"): the time of the text on 1900-01-01,
\* here in seconds from the start of that day.
\* src/departure.py:159-160
StrptimeHM(text) == text.h * 3600 + text.mi * 60

\* delay_minutes = int((estimated - scheduled).total_seconds() // 60),
\* scheduled and estimated parsed back from the two "%H:%M" texts.
\* src/departure.py:159-161
LegacyDelay(scheduledLocal, estimatedLocal) ==
    (StrptimeHM(StrftimeHM(estimatedLocal)) - StrptimeHM(StrftimeHM(scheduledLocal))) \div 60

\* The body of the loop for one StopEvent: the exception raised in it (""
\* when none) and the departure dict, appended only when it has a line
\* and a scheduled time.
\* src/departure.py:120-171
LegacyEventStep(event) ==
    LET line == IF event.line # NoElem THEN Some(Get(event.line).text) ELSE None
        sched == IF event.timetabled # NoElem
                 THEN ConvertUtcToLocal(Get(event.timetabled).text)
                 ELSE [exc |-> "", local |-> None]
        est == IF event.estimated # NoElem
               THEN ConvertUtcToLocal(Get(event.estimated).text)
               ELSE [exc |-> "", local |-> None]
        departure ==
            [line |-> line,
             scheduled_time |-> IF sched.local # None
                                THEN Some(StrftimeHM(Get(sched.local))) ELSE None,
             estimated_time |-> IF est.local # None
                                THEN Some(StrftimeHM(Get(est.local))) ELSE None,
             delay |-> IF sched.local # None /\ est.local # None
                       THEN Some(LegacyDelay(Get(sched.local), Get(est.local)))
                       ELSE None]
    IN  IF sched.exc # "" THEN [exc |-> sched.exc, departures |-> <<>>]
        ELSE IF est.exc # "" THEN [exc |-> est.exc, departures |-> <<>>]
        ELSE [exc |-> "",
              departures |-> IF line # None /\ sched.local # None
                             THEN <<departure>> ELSE <<>>]

\* _parse_departure_response(response_text) on a response of one
\* StopEvent: any exception is caught and printed, and the list built so
\* far is returned.
\* src/departure.py:101-176
ParseDepartureResponse ==
    /\ dpResult = None
    /\ dpResult' = Some(LegacyEventStep(dpEvent).departures)
    /\ UNCHANGED <<dpEvent, dpOthers>>

(***************************************************************************)
(* The StopEvent nodes _parse_departure_response is run on.                *)
(***************************************************************************)
\* Wire times of 22 September 2025, when 22:00 UTC is midnight in Berlin,
\* and texts that strptime rejects.
LegacyScheduled ==
    { Leaf(Sep22(16, 0, 0)), Leaf(Sep22(16, 0, 40)), Leaf(Sep22(21, 58, 0)),
      Leaf(Sep22(21, 59, 30)), NoElem, EmptyLeaf, Leaf(GarbageText) }
LegacyEstimated ==
    { Leaf(Sep22(15, 59, 0)), Leaf(Sep22(16, 0, 0)), Leaf(Sep22(16, 0, 50)),
      Leaf(Sep22(16, 1, 10)), Leaf(Sep22(16, 5, 0)), Leaf(Sep22(21, 58, 0)),
      Leaf(Sep22(22, 0, 10)), Leaf(Sep22(22, 3, 0)), NoElem, EmptyLeaf,
      Leaf(IsoText(2025, 9, 22, 16, 5, 0, FALSE)), Leaf(GarbageText) }
LegacyEvents ==
    { [line |-> line, timetabled |-> timetabled, estimated |-> estimated] :
        line \in {NoElem, Leaf("U6")}, timetabled \in LegacyScheduled,
        estimated \in LegacyEstimated }

InitLegacy ==
    /\ dpEvent \in LegacyEvents
    /\ dpResult = None
    /\ IdleExcept("dp")
NextLegacy == ParseDepartureResponse
SpecLegacy == InitLegacy /\ [][NextLegacy]_vars

(***************************************************************************)
(* Properties of the legacy departure path.                                *)
(***************************************************************************)
\* The instant of a time element that convert_utc_to_local accepts.
LegacyInstant(element) == Get(ConvertUtcToLocal(Get(element).text).local).utc
LegacyHasInstant(element) ==
    element # NoElem /\ ConvertUtcToLocal(Get(element).text).exc = ""

\* C27 (as claimed): the delay reported for a stop event with scheduled
\* instant S and estimated instant E >= S is floor((E - S) / 60 s), also
\* when S and E are on different local days and when they have seconds.
C27_LegacyDelayOfInstants ==
    \A k \in 1..Len(IF dpResult = None THEN <<>> ELSE Get(dpResult)) :
        LET departure == Get(dpResult)[k] IN
        (/\ LegacyHasInstant(dpEvent.timetabled)
         /\ LegacyHasInstant(dpEvent.estimated)
         /\ LegacyInstant(dpEvent.estimated) >= LegacyInstant(dpEvent.timetabled)) =>
            departure.delay =
                Some((LegacyInstant(dpEvent.estimated) - LegacyInstant(dpEvent.timetabled))
                     \div 60)

\* What the code does: the delay is the difference of the two local wall
\* clocks, each cut to hour and minute of its own day.
C27_LegacyDelayOfClockTexts ==
    \A k \in 1..Len(IF dpResult = None THEN <<>> ELSE Get(dpResult)) :
        LET departure == Get(dpResult)[k] IN
        departure.delay # None =>
            /\ departure.scheduled_time # None /\ departure.estimated_time # None
            /\ Get(departure.delay) =
                  (Get(departure.estimated_time).h * 60 + Get(departure.estimated_time).mi)
                  - (Get(departure.scheduled_time).h * 60 + Get(departure.scheduled_time).mi)


=============================================================================
